---- MODULE Spec2Model ----
(***************************************************************************)
(* Model of the Asteroids game: the four stellar objects (spaceship,       *)
(* asteroid, missile, black hole), the collision pass, the per-frame       *)
(* update and the game state machine of main().                            *)
(*                                                                         *)
(* Numbers.  The program computes on f32.  The model computes on a fixed   *)
(* point grid: a length of one pixel is Px(1) = 200 units, so that the     *)
(* thrust (0.01 px) is 2 units and the passive deceleration (0.005 px) is  *)
(* 1 unit.  Time is counted in half seconds.  Rotation is counted in steps *)
(* of 0.05 rad, the only amount the program ever rotates by.  Rounding of  *)
(* f32 below the grid is not modelled.                                     *)
(***************************************************************************)
EXTENDS Integers, Sequences, FiniteSets, TLC

VARIABLES
    game_state,        \* main: game_state ("StartScreen", "Playing", "GameOver")
    running,           \* FALSE once the main loop was left (Escape, "Quitter")
    spaceship,         \* main: spaceship
    asteroids,         \* main: asteroids (Vec<Asteroid>)
    missiles,          \* main: missiles (Vec<Missile>)
    black_holes,       \* main: black_holes (Vec<BlackHole>)
    wave,              \* main: wave
    score,             \* main: score
    start_game_sound,  \* main: start_game_sound latch
    end_game_sound,    \* main: end_game_sound latch
    ticks,             \* number of Playing frames of the current session
    sessions,          \* number of restarts so far
    cues,              \* sound cues played: start cues since the Playing
                       \* session was entered, game over cues since GameOver
                       \* was last entered
    obs,               \* what the last frame did (observation only)
    unit               \* the object harness used to exercise single functions

vars == <<game_state, running, spaceship, asteroids, missiles, black_holes,
          wave, score, start_game_sound, end_game_sound, ticks, sessions,
          cues, obs, unit>>

game_vars == <<game_state, running, spaceship, asteroids, missiles,
               black_holes, wave, score, start_game_sound, end_game_sound,
               ticks, sessions, cues, obs>>

----------------------------------------------------------------------------
(* Bounds of the model *)

\* screen_width(), in pixels
ScreenWidthPx == 150
\* screen_height(), in pixels
ScreenHeightPx == 110
\* the largest |rotation| of the spaceship, in steps of 0.05 rad
MaxRot == 1
\* the most missiles in flight at once
MaxMissiles == 1
\* the most Playing frames of one session
MaxTicks == 20
\* the highest wave number
MaxWave == 3
\* the most restarts
MaxSessions == 1
\* the most handle_collision calls on one harness object
MaxCalls == 6
\* the most move_obj calls on one harness object
MaxMoves == 10
\* the Playing frames of a session in which the arrow keys may be down
MaxSteerTicks == 1
\* the Playing frames a scene is run for
SceneFrames == 2
\* the Playing frames a split chain is run for
ChainFrames == 4

----------------------------------------------------------------------------
(* Fixed point numbers and vectors *)

\* n pixels, in grid units
Px(n) == n * 200

screen_width == Px(ScreenWidthPx)
screen_height == Px(ScreenHeightPx)

RoundDiv(n, d) ==
    IF n >= 0 THEN (2 * n + d) \div (2 * d) ELSE -((2 * (-n) + d) \div (2 * d))

VAdd(a, b) == <<a[1] + b[1], a[2] + b[2]>>
VSub(a, b) == <<a[1] - b[1], a[2] - b[2]>>
VNeg(a) == <<-a[1], -a[2]>>

\* f32 `%`: the remainder of the truncated division, with the sign of a
Rem(a, d) == IF a >= 0 THEN a % d ELSE -((-a) % d)

\* (cos, sin) of k steps of 0.05 rad, in thousandths
CosSin(k) ==
    CASE k = 0 -> <<1000, 0>>
      [] k = 1 -> <<999, 50>>
      [] k = -1 -> <<999, -50>>
      [] k = 2 -> <<995, 100>>
      [] k = -2 -> <<995, -100>>
      [] OTHER -> <<1000, 0>>

\* vec2(rotation.cos(), rotation.sin()) * amount
Heading(rotation, amount) ==
    <<RoundDiv(CosSin(rotation)[1] * amount, 1000),
      RoundDiv(CosSin(rotation)[2] * amount, 1000)>>

Abs(n) == IF n >= 0 THEN n ELSE -n

\* Vec2::distance(p, q) < r, for r >= 0.  Both sides are squared; the squares
\* are taken only when both coordinate differences are below r (a farther
\* point is at a distance >= r anyway), which keeps them within 32 bits.
DistanceBelow(p, q, r) ==
    /\ Abs(p[1] - q[1]) < r
    /\ Abs(p[2] - q[2]) < r
    /\ (p[1] - q[1]) * (p[1] - q[1]) + (p[2] - q[2]) * (p[2] - q[2]) < r * r

----------------------------------------------------------------------------
(* Program constants *)

\* Spaceship::new: radius: 25.0
ShipRadiusPx == 25
\* Missile::new: radius: 2.0
MissileRadiusPx == 2
\* Missile::new: speed = 4.0
MissileSpeedPx == 4
\* Size::scale of Large, Medium, Small
LargeScalePx == 100
MediumScalePx == 70
SmallScalePx == 40
\* handle_input: apply_thrust(0.01), in grid units
ThrustAmount == 2
\* handle_input: direction * 0.005, in grid units
DecelStep == 1
\* Spaceship::handle_collision: invincibility_timer = 2.0, in half seconds
HitInvincibility == 4
\* main: invincibility_timer = 1.0 on a new wave, in half seconds
WaveInvincibility == 2
\* BlackHole::handle_collision: counter == 5
BlackHoleLimit == 5
\* main: score += 10 on a new wave
WaveBonus == 10
\* check_collision: score += 10 when a missile hits an inactive black hole
BlackHoleBonus == 10
\* check_collision: score -= 5 when the shield is lost
ShieldPenalty == 5
\* start_new_wave: 5 + (wave - 1)
WaveBase == 5

----------------------------------------------------------------------------
(* asteroid.rs *)

Sizes == {"Large", "Medium", "Small"}

\* Size::scale
scale(size) ==
    CASE size = "Large" -> Px(LargeScalePx)
      [] size = "Medium" -> Px(MediumScalePx)
      [] size = "Small" -> Px(SmallScalePx)

next_bug(size) ==
    CASE size = "Large" -> "Medium"
      [] size = "Medium" -> "Medium"
      [] size = "Small" -> "None"

\* Size::next; "None" is Option::None
next(size) ==
    CASE size = "Large" -> "Medium"
      [] size = "Medium" -> "Small"
      [] size = "Small" -> "None"

\* Asteroid::new_with_size
new_with_size(size, position, speed) ==
    [kind |-> "Asteroid", position |-> position, speed |-> speed,
     size |-> size, active |-> TRUE]

\* Asteroid::new_random_position: nearpos is the draw of gen_range(size/2..=size),
\* left and top the two draws of gen_bool
new_random_position(nearpos, left, top) ==
    <<IF left THEN nearpos ELSE screen_width - nearpos,
      IF top THEN nearpos ELSE screen_height - nearpos>>

\* Asteroid::new: r holds the draws of the random generator
Asteroid_new(r) ==
    [kind |-> "Asteroid",
     position |-> new_random_position(r.nearpos, r.left, r.top),
     speed |-> r.dir, size |-> r.size, active |-> TRUE]

split_bug(a, d) ==
    IF next(a.size) # "None"
    THEN <<new_with_size(next(a.size), a.position, VAdd(a.speed, d)),
           new_with_size(next(a.size), a.position, VAdd(a.speed, d))>>
    ELSE <<>>

\* Asteroid::split: d is the draw of speed_variation; <<>> is Option::None
split(a, d) ==
    IF next(a.size) # "None"
    THEN <<new_with_size(next(a.size), a.position, VAdd(a.speed, d)),
           new_with_size(next(a.size), a.position, VSub(a.speed, d))>>
    ELSE <<>>

\* Asteroid::wrap_around_screen and Spaceship::wrap_around_screen (the same body)
wrap_around_screen(position) ==
    <<Rem(position[1] + screen_width, screen_width),
      Rem(position[2] + screen_height, screen_height)>>

----------------------------------------------------------------------------
(* spaceship.rs *)

\* Spaceship::new
Spaceship_new ==
    [kind |-> "Spaceship",
     position |-> <<screen_width \div 2, screen_height \div 2>>,
     velocity |-> <<0, 0>>, rotation |-> 0, shield |-> TRUE,
     invincible |-> FALSE, invincibility_timer |-> 0, hit |-> FALSE,
     active |-> TRUE, radius |-> Px(ShipRadiusPx)]

\* Spaceship::apply_thrust
apply_thrust(s, amount) ==
    [s EXCEPT !.velocity = VAdd(s.velocity, Heading(s.rotation, amount))]

\* Spaceship::rotate, by `steps` steps of 0.05 rad
rotate(s, steps) == [s EXCEPT !.rotation = s.rotation + steps]

----------------------------------------------------------------------------
(* missile.rs *)

\* Missile::new
Missile_new(position, rotation) ==
    [kind |-> "Missile", position |-> position,
     velocity |-> Heading(rotation, Px(MissileSpeedPx)),
     active |-> TRUE, radius |-> Px(MissileRadiusPx)]

Missile_wrap_around_screen_bug(m) ==
    [m EXCEPT !.position = wrap_around_screen(m.position)]

\* Missile::wrap_around_screen
Missile_wrap_around_screen(m) ==
    IF \/ m.position[1] < 0
       \/ m.position[1] > screen_width
       \/ m.position[2] < 0
       \/ m.position[2] > screen_height
    THEN [m EXCEPT !.active = FALSE]
    ELSE m

----------------------------------------------------------------------------
(* black_hole.rs *)

BlackHole_new_bug(position, size_ast) ==
    [kind |-> "BlackHole", position |-> position, size |-> size_ast \div 2,
     counter |-> 0, active |-> TRUE]

\* BlackHole::new
BlackHole_new(position, size_ast) ==
    [kind |-> "BlackHole", position |-> position, size |-> size_ast,
     counter |-> 0, active |-> TRUE]

----------------------------------------------------------------------------
(* main.rs, tests: the Object of the unit tests *)

\* tests::Object::new
Object_new(position, r) ==
    [kind |-> "Object", position |-> position, radius |-> r, active |-> TRUE]

\* the velocity tests::Object::move_obj adds: (10.0, 10.0)
ObjectStepPx == 10

----------------------------------------------------------------------------
(* The StellarObject trait, dispatched on the kind of the object *)

\* StellarObject::get_pos
get_pos(o) == o.position

\* StellarObject::radius
radius(o) ==
    CASE o.kind = "Asteroid" -> scale(o.size) \div 2
      [] o.kind = "BlackHole" -> o.size \div 2
      [] OTHER -> o.radius

\* the displacement of one move_obj
velocity_of(o) ==
    CASE o.kind = "Asteroid" -> o.speed
      [] o.kind = "BlackHole" -> <<0, 0>>
      [] o.kind = "Object" -> <<Px(ObjectStepPx), Px(ObjectStepPx)>>
      [] OTHER -> o.velocity

move_obj_bug(o) ==
    CASE o.kind = "Asteroid" ->
           [o EXCEPT !.position = wrap_around_screen(o.position)]
      [] o.kind = "Spaceship" ->
           [o EXCEPT !.position = wrap_around_screen(o.position)]
      [] o.kind = "Missile" ->
           Missile_wrap_around_screen(
               [o EXCEPT !.position = VAdd(o.position, <<o.velocity[2], o.velocity[1]>>)])
      [] o.kind = "BlackHole" -> o
      [] o.kind = "Object" ->
           [o EXCEPT !.position = <<o.position[1] + Px(ObjectStepPx), o.position[2]>>]

\* StellarObject::move_obj
move_obj(o) ==
    CASE o.kind = "Asteroid" ->
           [o EXCEPT !.position = wrap_around_screen(VAdd(o.position, o.speed))]
      [] o.kind = "Spaceship" ->
           [o EXCEPT !.position = wrap_around_screen(VAdd(o.position, o.velocity))]
      [] o.kind = "Missile" ->
           Missile_wrap_around_screen(
               [o EXCEPT !.position = VAdd(o.position, o.velocity)])
      [] o.kind = "BlackHole" -> o
      [] o.kind = "Object" ->
           [o EXCEPT !.position = <<o.position[1] + Px(ObjectStepPx),
                                    o.position[2] + Px(ObjectStepPx)>>]

Spaceship_handle_collision_bug(s) ==
    IF s.shield
    THEN [s EXCEPT !.shield = FALSE, !.invincible = TRUE,
                   !.invincibility_timer = HitInvincibility, !.hit = TRUE]
    ELSE [s EXCEPT !.active = FALSE, !.hit = TRUE]

\* Spaceship::handle_collision
Spaceship_handle_collision(s) ==
    IF s.shield
    THEN [s EXCEPT !.shield = FALSE, !.invincible = TRUE,
                   !.invincibility_timer = HitInvincibility, !.hit = TRUE]
    ELSE [s EXCEPT !.active = FALSE]

BlackHole_handle_collision_bug(b) ==
    IF b.counter = BlackHoleLimit
    THEN [b EXCEPT !.active = FALSE, !.counter = 0]
    ELSE [b EXCEPT !.counter = b.counter + 1]

\* BlackHole::handle_collision
BlackHole_handle_collision(b) ==
    IF b.counter = BlackHoleLimit
    THEN [b EXCEPT !.active = FALSE]
    ELSE [b EXCEPT !.counter = b.counter + 1]

\* StellarObject::handle_collision
handle_collision(o) ==
    CASE o.kind = "Spaceship" -> Spaceship_handle_collision(o)
      [] o.kind = "BlackHole" -> BlackHole_handle_collision(o)
      [] OTHER -> [o EXCEPT !.active = FALSE]

collides_bug(obj1, obj2) ==
    DistanceBelow(get_pos(obj1), get_pos(obj2), radius(obj1) + radius(obj2) + 1)

\* check_collision_between: distance < collision_distance
collides(obj1, obj2) ==
    DistanceBelow(get_pos(obj1), get_pos(obj2), radius(obj1) + radius(obj2))

\* check_collision_between: the value returned, the two objects afterwards and
\* the handle_collision calls made, in order (1 = obj1, 2 = obj2)
check_collision_between(obj1, obj2) ==
    IF collides(obj1, obj2)
    THEN [ret |-> TRUE, obj1 |-> handle_collision(obj1),
          obj2 |-> handle_collision(obj2), calls |-> <<1, 2>>]
    ELSE [ret |-> FALSE, obj1 |-> obj1, obj2 |-> obj2, calls |-> <<>>]

----------------------------------------------------------------------------
(* main.rs: handle_input, the passive deceleration *)

RECURSIVE ISqrtBetween(_, _, _)
\* the largest r in lo .. hi with r * r <= n (hi stays below 2^15.5)
ISqrtBetween(n, lo, hi) ==
    IF lo >= hi THEN lo
    ELSE LET mid == (lo + hi + 1) \div 2 IN
         IF mid * mid <= n THEN ISqrtBetween(n, mid, hi)
         ELSE ISqrtBetween(n, lo, mid - 1)

\* Vec2::length, rounded down to the grid
Length(v) == ISqrtBetween(v[1] * v[1] + v[2] * v[2], 0, 46340)

\* handle_input, "Ralentir progressivement":
\*   if velocity.length() > 0.0 { velocity -= velocity.normalize() * 0.005 }
\* with 0.005 given as `step` in the unit of v
slow_down(v, step) ==
    IF Length(v) > 0
    THEN <<v[1] - RoundDiv(v[1] * step, Length(v)),
           v[2] - RoundDiv(v[2] * step, Length(v))>>
    ELSE v

\* the deceleration step 0.005 in tenths of a grid unit, the unit of the
\* slow velocities the harness decelerates
FineDecelStep == 10

\* velocities in tenths of a grid unit: at rest, slower than the step, as
\* fast as the step, and faster
SlowVelocities ==
    {<<0, 0>>, <<3, 4>>, <<-5, 0>>, <<6, 8>>, <<0, -12>>, <<30, 40>>}

----------------------------------------------------------------------------
(* The object harness: one object `a` (and a second one, `b`) is constructed  *)
(* and the functions of the StellarObject trait, Asteroid::split and          *)
(* wrap_around_screen are applied to it, as the unit tests of main.rs do.     *)

\* the draws of speed_variation used: components in [-1, 1) px
Perturbations == {<<0, 0>>, <<Px(1) \div 2, -Px(1)>>, <<-Px(1) \div 4, Px(1) \div 2>>}

\* unit directions of Vec2::from_angle
\* the coordinates wrap_around_screen is tried on, along one axis of length d
WrapCoordinates(d) ==
    {-(2 * d) - Px(3), -d - Px(1), -Px(1), 0, d - 1, d, 2 * d + Px(5)}

HarnessShips ==
    {[Spaceship_new EXCEPT !.position = <<Px(100), Px(100)>>,
                           !.shield = sh, !.invincible = inv, !.hit = inv,
                           !.invincibility_timer = IF inv THEN 1 ELSE 0,
                           !.active = act] :
        sh \in BOOLEAN, inv \in BOOLEAN, act \in BOOLEAN}
    \cup {[Spaceship_new EXCEPT !.position = <<Px(100), Px(100)>>, !.velocity = v] :
            v \in {<<Px(10), -Px(3)>>, <<-(screen_width + Px(110)), 0>>}}

\* how the first object was constructed
HarnessConstructions ==
    [fn : {"Spaceship"}, obj : HarnessShips]
    \cup {[fn |-> "Asteroid::new_with_size", obj |-> new_with_size(sz, p, v)] :
            sz \in Sizes, p \in {<<Px(100), Px(100)>>, <<Px(73), Px(64)>>},
            v \in {<<Px(1), 0>>, <<-(3 * Px(1)) \div 5, (4 * Px(1)) \div 5>>}}
    \cup {[fn |-> "Missile::new", obj |-> Missile_new(<<Px(100), Px(100)>>, rot),
           rotation |-> rot] : rot \in -MaxRot .. MaxRot}
    \cup {[fn |-> "Missile::new", obj |-> Missile_new(p, 0), rotation |-> 0] :
            p \in {<<screen_width - 2 * Px(MissileSpeedPx), Px(100)>>,
                   <<screen_width - Px(MissileSpeedPx) - 1, Px(1)>>}}
    \cup {[fn |-> "BlackHole::new",
           obj |-> BlackHole_new(<<Px(100), Px(100)>>, scale(sz))] :
            sz \in {"Large", "Small"}}
    \cup {[fn |-> "Object::new", obj |-> Object_new(<<Px(50), Px(100)>>, Px(20))]}
    \cup {[fn |-> "Spaceship::velocity",
           obj |-> [kind |-> "Velocity", velocity |-> v]] : v \in SlowVelocities}
    \cup {[fn |-> "Vec2", obj |-> [kind |-> "Vec2", position |-> <<x, y>>]] :
            x \in WrapCoordinates(screen_width),
            y \in WrapCoordinates(screen_height)}

\* the second object of check_collision_between
HarnessSeconds ==
    {Object_new(<<Px(20), Px(70)>>, Px(30)),
     [Spaceship_new EXCEPT !.position = <<Px(100), Px(100)>>],
     [Spaceship_new EXCEPT !.position = <<Px(100), Px(100)>>, !.shield = FALSE],
     Missile_new(<<Px(100), Px(78)>>, 0)}

HarnessIdle ==
    [op |-> "none", ctor |-> [fn |-> "none"], a |-> [kind |-> "none"],
     b |-> [kind |-> "none"], ncalls |-> 0, nmoves |-> 0,
     arg |-> <<>>, ret |-> <<>>, calls |-> <<>>, draw |-> <<>>]

\* the state of main() right after construction with no asteroid drawn yet;
\* the harness never runs the main loop
GameIdle ==
    /\ game_state = "StartScreen"
    /\ running = FALSE
    /\ spaceship = Spaceship_new
    /\ asteroids = <<>>
    /\ missiles = <<>>
    /\ black_holes = <<>>
    /\ wave = 1
    /\ score = 0
    /\ start_game_sound = FALSE
    /\ end_game_sound = FALSE
    /\ ticks = 0
    /\ sessions = 0
    /\ cues = [start |-> 0, game_over |-> 0]
    /\ obs = [kind |-> "none"]

HarnessInit ==
    /\ GameIdle
    /\ \E c \in HarnessConstructions, o2 \in HarnessSeconds :
          unit = [HarnessIdle EXCEPT !.op = "new", !.ctor = c, !.a = c.obj,
                                     !.b = o2]

\* a.handle_collision()
CallHandleCollision ==
    /\ unit.a.kind \notin {"Vec2", "Velocity"}
    /\ unit.ncalls < MaxCalls
    /\ unit' = [unit EXCEPT !.op = "handle_collision", !.arg = unit.a,
                            !.a = handle_collision(unit.a),
                            !.ncalls = unit.ncalls + 1,
                            !.ret = <<>>, !.calls = <<>>, !.draw = <<>>]
    /\ UNCHANGED game_vars

\* a.move_obj()
CallMoveObj ==
    /\ unit.a.kind \notin {"Vec2", "Velocity"}
    /\ unit.nmoves < MaxMoves
    /\ unit' = [unit EXCEPT !.op = "move_obj", !.arg = unit.a,
                            !.a = move_obj(unit.a),
                            !.nmoves = unit.nmoves + 1,
                            !.ret = <<>>, !.calls = <<>>, !.draw = <<>>]
    /\ UNCHANGED game_vars

\* check_collision_between(&mut a, &mut b)
CallCheckCollisionBetween ==
    /\ unit.a.kind \notin {"Vec2", "Velocity"}
    /\ unit.ncalls < MaxCalls
    /\ LET r == check_collision_between(unit.a, unit.b) IN
          unit' = [unit EXCEPT !.op = "check_collision_between",
                               !.arg = <<unit.a, unit.b>>,
                               !.a = r.obj1, !.b = r.obj2, !.ret = r.ret,
                               !.calls = r.calls, !.draw = <<>>,
                               !.ncalls = unit.ncalls + Len(r.calls) \div 2]
    /\ UNCHANGED game_vars

\* a.split(), a an asteroid
CallSplit ==
    /\ unit.a.kind = "Asteroid"
    /\ \E d \in Perturbations :
          unit' = [unit EXCEPT !.op = "split", !.arg = unit.a,
                               !.ret = split(unit.a, d), !.draw = d,
                               !.calls = <<>>]
    /\ UNCHANGED game_vars

\* a = wrap_around_screen(a), a a position
CallWrapAroundScreen ==
    /\ unit.a.kind = "Vec2"
    /\ unit.nmoves < 2
    /\ unit' = [unit EXCEPT !.op = "wrap_around_screen", !.arg = unit.a.position,
                            !.a = [kind |-> "Vec2",
                                   position |-> wrap_around_screen(unit.a.position)],
                            !.nmoves = unit.nmoves + 1]
    /\ UNCHANGED game_vars

\* the deceleration of handle_input on the velocity a, no thrust key down
CallDecelerate ==
    /\ unit.a.kind = "Velocity"
    /\ unit.nmoves < MaxMoves
    /\ unit' = [unit EXCEPT !.op = "decelerate", !.arg = unit.a,
                            !.a = [kind |-> "Velocity",
                                   velocity |-> slow_down(unit.a.velocity,
                                                          FineDecelStep)],
                            !.nmoves = unit.nmoves + 1]
    /\ UNCHANGED game_vars

HarnessNext ==
    \/ CallDecelerate
    \/ CallHandleCollision
    \/ CallMoveObj
    \/ CallCheckCollisionBetween
    \/ CallSplit
    \/ CallWrapAroundScreen

HarnessSpec == HarnessInit /\ [][HarnessNext]_vars

----------------------------------------------------------------------------
(* main.rs: handle_input *)

\* handle_input, "Ralentir progressivement", on the ship
decelerate(s) == [s EXCEPT !.velocity = slow_down(s.velocity, DecelStep)]

NoKeys ==
    [escape |-> FALSE, right |-> FALSE, left |-> FALSE, up |-> FALSE,
     down |-> FALSE, space |-> FALSE]

\* the key states a frame is tried with
KeyInputs ==
    {NoKeys,
     [NoKeys EXCEPT !.space = TRUE],
     [NoKeys EXCEPT !.right = TRUE],
     [NoKeys EXCEPT !.left = TRUE, !.space = TRUE],
     [NoKeys EXCEPT !.up = TRUE],
     [NoKeys EXCEPT !.down = TRUE]}

\* handle_input, the part after the Escape test: the ship and the missiles
handle_input(s, ms, keys) ==
    LET s1 == IF keys.right THEN rotate(s, 1) ELSE s
        s2 == IF keys.left THEN rotate(s1, -1) ELSE s1
        s3 == IF keys.up THEN apply_thrust(s2, ThrustAmount) ELSE s2
        s4 == IF keys.down THEN apply_thrust(s3, -ThrustAmount) ELSE s3
        s5 == IF ~keys.up /\ ~keys.down THEN decelerate(s4) ELSE s4
    IN  [spaceship |-> s5,
         missiles |-> IF keys.space
                      THEN Append(ms, Missile_new(get_pos(s5), s5.rotation))
                      ELSE ms]

----------------------------------------------------------------------------
(* main.rs: check_collision.  The pass works on a record st of the objects, *)
(* the score, the queue asteroids_to_split, the list `calls` of the         *)
(* handle_collision calls made so far, and, once the pass has returned,     *)
(* returned = TRUE with the value in ret.                                   *)

RECURSIVE AsteroidsVsShip_bug(_, _)
AsteroidsVsShip_bug(st, i) ==
    IF i > Len(st.asteroids) THEN st
    ELSE LET r == check_collision_between(st.asteroids[i], st.spaceship) IN
         IF r.ret
         THEN IF st.spaceship.active
              THEN [st EXCEPT
                      !.asteroids[i] = r.obj1,
                      !.spaceship = r.obj2,
                      !.calls = @ \o <<<<"Asteroid", i>>, <<"Spaceship", 1>>>>,
                      !.score = @ - ShieldPenalty,
                      !.black_holes =
                          Append(@, BlackHole_new(get_pos(r.obj1),
                                                  scale(r.obj1.size))),
                      !.returned = TRUE,
                      !.ret = FALSE]
              ELSE [st EXCEPT
                      !.asteroids[i] = r.obj1,
                      !.spaceship = r.obj2,
                      !.calls = @ \o <<<<"Asteroid", i>>, <<"Spaceship", 1>>>>,
                      !.returned = TRUE,
                      !.ret = TRUE]
         ELSE AsteroidsVsShip_bug(st, i + 1)

RECURSIVE AsteroidsVsShip(_, _)
\* "Collision entre Asteroids et SpaceShip", from asteroid i on
AsteroidsVsShip(st, i) ==
    IF i > Len(st.asteroids) THEN st
    ELSE LET r == check_collision_between(st.asteroids[i], st.spaceship) IN
         IF r.ret
         THEN IF r.obj2.active
              THEN [st EXCEPT
                      !.asteroids[i] = r.obj1,
                      !.spaceship = r.obj2,
                      !.calls = @ \o <<<<"Asteroid", i>>, <<"Spaceship", 1>>>>,
                      !.score = @ - ShieldPenalty,
                      !.black_holes =
                          Append(@, BlackHole_new(get_pos(r.obj1),
                                                  scale(r.obj1.size))),
                      !.returned = TRUE,
                      !.ret = FALSE]
              ELSE [st EXCEPT
                      !.asteroids[i] = r.obj1,
                      !.spaceship = r.obj2,
                      !.calls = @ \o <<<<"Asteroid", i>>, <<"Spaceship", 1>>>>,
                      !.returned = TRUE,
                      !.ret = TRUE]
         ELSE AsteroidsVsShip(st, i + 1)

RECURSIVE BlackHolesVsShip_destroys_bug(_, _)
BlackHolesVsShip_destroys_bug(st, i) ==
    IF i > Len(st.black_holes) THEN st
    ELSE LET r == check_collision_between(st.black_holes[i], st.spaceship) IN
         IF r.ret
         THEN [st EXCEPT
                 !.black_holes[i] = r.obj1,
                 !.spaceship = [r.obj2 EXCEPT !.active = FALSE],
                 !.calls = @ \o <<<<"BlackHole", i>>, <<"Spaceship", 1>>>>,
                 !.returned = TRUE,
                 !.ret = TRUE]
         ELSE BlackHolesVsShip_destroys_bug(st, i + 1)

RECURSIVE BlackHolesVsShip_bug(_, _)
BlackHolesVsShip_bug(st, i) ==
    IF i > Len(st.black_holes) THEN st
    ELSE LET r == check_collision_between(st.black_holes[i], st.spaceship) IN
         IF r.ret
         THEN [st EXCEPT
                 !.black_holes[i] = r.obj1,
                 !.spaceship = r.obj2,
                 !.calls = @ \o <<<<"BlackHole", i>>, <<"Spaceship", 1>>>>,
                 !.returned = ~r.obj2.active,
                 !.ret = ~r.obj2.active]
         ELSE BlackHolesVsShip_bug(st, i + 1)

RECURSIVE BlackHolesVsShip(_, _)
\* "Collision entre Trou Noir et Spaceship", from black hole i on
BlackHolesVsShip(st, i) ==
    IF i > Len(st.black_holes) THEN st
    ELSE LET r == check_collision_between(st.black_holes[i], st.spaceship) IN
         IF r.ret
         THEN [st EXCEPT
                 !.black_holes[i] = r.obj1,
                 !.spaceship = r.obj2,
                 !.calls = @ \o <<<<"BlackHole", i>>, <<"Spaceship", 1>>>>,
                 !.returned = TRUE,
                 !.ret = TRUE]
         ELSE BlackHolesVsShip(st, i + 1)

RECURSIVE AsteroidsVsBlackHoles(_, _, _)
\* "Collision entre Asteroids et Trou Noir", from the pair (i, j) on
AsteroidsVsBlackHoles(st, i, j) ==
    IF i > Len(st.asteroids) THEN st
    ELSE IF j > Len(st.black_holes) THEN AsteroidsVsBlackHoles(st, i + 1, 1)
    ELSE LET r == check_collision_between(st.asteroids[i], st.black_holes[j]) IN
         IF r.ret
         THEN AsteroidsVsBlackHoles(
                  [st EXCEPT
                     !.asteroids[i] = r.obj1,
                     !.black_holes[j] = r.obj2,
                     !.calls = @ \o <<<<"Asteroid", i>>, <<"BlackHole", j>>>>],
                  i, j + 1)
         ELSE AsteroidsVsBlackHoles(st, i, j + 1)

RECURSIVE BlackHolesVsMissiles(_, _, _)
\* "Collision entre Trou Noir et missiles", from the pair (i, j) on, j going down
BlackHolesVsMissiles(st, i, j) ==
    IF i > Len(st.black_holes) THEN st
    ELSE IF j < 1 THEN BlackHolesVsMissiles(st, i + 1, Len(st.missiles))
    ELSE LET r == check_collision_between(st.missiles[j], st.black_holes[i]) IN
         IF r.ret
         THEN BlackHolesVsMissiles(
                  [st EXCEPT
                     !.missiles[j] = r.obj1,
                     !.black_holes[i] = r.obj2,
                     !.calls = @ \o <<<<"Missile", j>>, <<"BlackHole", i>>>>,
                     !.score = IF ~r.obj2.active THEN @ + BlackHoleBonus ELSE @],
                  i, j - 1)
         ELSE BlackHolesVsMissiles(st, i, j - 1)

RECURSIVE AsteroidsVsMissiles_bug(_, _, _, _)
AsteroidsVsMissiles_bug(st, i, j, ds) ==
    IF i > Len(st.asteroids) THEN st
    ELSE IF j < 1 THEN AsteroidsVsMissiles_bug(st, i + 1, Len(st.missiles), ds)
    ELSE LET r == check_collision_between(st.asteroids[i], st.missiles[j]) IN
         IF r.ret
         THEN AsteroidsVsMissiles_bug(
                  [st EXCEPT
                     !.asteroids[i] = r.obj1,
                     !.missiles[j] = r.obj2,
                     !.calls = @ \o <<<<"Asteroid", i>>, <<"Missile", j>>>>,
                     !.score = @ + 1,
                     !.asteroids_to_split = @ \o split(r.obj1, ds[i])],
                  i, j - 1, ds)
         ELSE AsteroidsVsMissiles_bug(st, i, j - 1, ds)

RECURSIVE AsteroidsVsMissiles(_, _, _, _)
\* "Collision entre Asteroids et missiles", from the pair (i, j) on, j going
\* down; ds[i] is the draw of speed_variation when asteroid i is split
AsteroidsVsMissiles(st, i, j, ds) ==
    IF i > Len(st.asteroids) THEN st
    ELSE IF j < 1 THEN AsteroidsVsMissiles(st, i + 1, Len(st.missiles), ds)
    ELSE LET r == check_collision_between(st.asteroids[i], st.missiles[j]) IN
         IF r.ret
         THEN AsteroidsVsMissiles(
                  [st EXCEPT
                     !.asteroids[i] = r.obj1,
                     !.missiles[j] = r.obj2,
                     !.calls = @ \o <<<<"Asteroid", i>>, <<"Missile", j>>>>,
                     !.score = @ + 1,
                     !.asteroids_to_split = @ \o split(r.obj1, ds[i])],
                  i + 1, Len(st.missiles), ds)
         ELSE AsteroidsVsMissiles(st, i, j - 1, ds)

PassStart(s, as, ms, bs, sc) ==
    [spaceship |-> s, asteroids |-> as, missiles |-> ms, black_holes |-> bs,
     score |-> sc, asteroids_to_split |-> <<>>, calls |-> <<>>,
     returned |-> FALSE, ret |-> FALSE]

\* the five loops in turn, each entered unless the pass has returned
ThenBlackHolesVsShip(st) ==
    IF st.returned THEN st ELSE BlackHolesVsShip(st, 1)

ThenAsteroidsVsBlackHoles(st) ==
    IF st.returned THEN st ELSE AsteroidsVsBlackHoles(st, 1, 1)

ThenBlackHolesVsMissiles(st) ==
    IF st.returned THEN st ELSE BlackHolesVsMissiles(st, 1, Len(st.missiles))

ThenAsteroidsVsMissiles(st, ds) ==
    IF st.returned THEN st ELSE AsteroidsVsMissiles(st, 1, Len(st.missiles), ds)

ThenExtend_bug(st) ==
    IF st.returned THEN st
    ELSE [st EXCEPT !.asteroids = st.asteroids_to_split \o @,
                    !.returned = TRUE, !.ret = FALSE]

\* "asteroids.extend(asteroids_to_split); false"
ThenExtend(st) ==
    IF st.returned THEN st
    ELSE [st EXCEPT !.asteroids = @ \o st.asteroids_to_split,
                    !.returned = TRUE, !.ret = FALSE]

\* check_collision below the test of spaceship.invincible
CollisionLoops(st0, ds) ==
    ThenExtend(
      ThenAsteroidsVsMissiles(
        ThenBlackHolesVsMissiles(
          ThenAsteroidsVsBlackHoles(
            ThenBlackHolesVsShip(
              AsteroidsVsShip(st0, 1)))), ds))

check_collision_bug(s, as, ms, bs, sc, ds) ==
    CollisionLoops(PassStart(s, as, ms, bs, sc), ds)

\* check_collision
check_collision(s, as, ms, bs, sc, ds) ==
    IF s.invincible
    THEN [PassStart(s, as, ms, bs, sc) EXCEPT !.returned = TRUE, !.ret = FALSE]
    ELSE CollisionLoops(PassStart(s, as, ms, bs, sc), ds)

\* the draws of speed_variation a pass over these objects is tried with: one
\* for each asteroid the pass splits, (0, 0) standing for "not drawn"
SplitDraws(s, as, ms, bs) ==
    LET none == [i \in 1 .. Len(as) |-> <<0, 0>>]
        log == check_collision(s, as, ms, bs, 0, none).calls
        split_ones == {i \in 1 .. Len(as) :
                         /\ next(as[i].size) # "None"
                         /\ \E k \in 1 .. Len(log) - 1 :
                               /\ log[k] = <<"Asteroid", i>>
                               /\ log[k + 1][1] = "Missile"}
    IN  {[i \in 1 .. Len(as) |-> IF i \in split_ones THEN f[i] ELSE <<0, 0>>] :
            f \in [split_ones -> Perturbations]}

----------------------------------------------------------------------------
(* main.rs: start_new_wave, update_model *)

\* the draws of the random generator an Asteroid::new is tried with:
\* size, gen_range(size/2..=size), the two gen_bool, the direction
SpawnDraws ==
    {[size |-> "Small", nearpos |-> Px(30), left |-> FALSE, top |-> FALSE,
      dir |-> <<0, -Px(1)>>],
     [size |-> "Large", nearpos |-> Px(50), left |-> TRUE, top |-> TRUE,
      dir |-> <<Px(1), 0>>]}

num_asteroids_bug(w) == WaveBase + (w - 2)

\* start_new_wave: num_asteroids
num_asteroids(w) == WaveBase + (w - 1)

\* the draws a batch of n asteroids is tried with: the first k asteroids are
\* drawn one way and the others another way
BatchDraws(n) ==
    {[i \in 1 .. n |-> IF i <= k THEN d1 ELSE d2] :
        k \in {0, 1}, d1 \in SpawnDraws, d2 \in SpawnDraws}

\* start_new_wave
start_new_wave(as, w, draws) ==
    as \o [i \in 1 .. num_asteroids(w) |-> Asteroid_new(draws[i])]

wave_clear_grace_bug(s, as, sc, w, draws) ==
    [spaceship |-> [s EXCEPT !.shield = TRUE, !.invincible = TRUE,
                             !.invincibility_timer = WaveInvincibility],
     asteroids |-> start_new_wave(as, w + 1, draws),
     score |-> sc + WaveBonus,
     wave |-> w + 1]

wave_clear_bug(s, as, sc, w, draws) ==
    [spaceship |-> [s EXCEPT !.shield = TRUE, !.invincible = TRUE,
                             !.hit = FALSE,
                             !.invincibility_timer = WaveInvincibility],
     asteroids |-> start_new_wave(as, w + 1, draws),
     score |-> sc + WaveBonus,
     wave |-> w]

\* main, lines 635-657: the wave-clear sequence, entered when asteroids is
\* empty after the collision pass
wave_clear(s, as, sc, w, draws) ==
    [spaceship |-> [s EXCEPT !.shield = TRUE, !.invincible = TRUE,
                             !.hit = FALSE,
                             !.invincibility_timer = WaveInvincibility],
     asteroids |-> start_new_wave(as, w + 1, draws),
     score |-> sc + WaveBonus,
     wave |-> w + 1]

\* Vec::retain(|o| o.active)
RECURSIVE retain_active(_)
retain_active(seq) ==
    IF seq = <<>> THEN <<>>
    ELSE IF Head(seq).active THEN <<Head(seq)>> \o retain_active(Tail(seq))
    ELSE retain_active(Tail(seq))

update_model_bug(s, as, ms, bs) ==
    [asteroids |-> retain_active([i \in 1 .. Len(as) |-> move_obj(as[i])]),
     black_holes |-> retain_active(bs),
     spaceship |-> move_obj(s),
     missiles |-> [i \in 1 .. Len(retain_active(ms)) |->
                      move_obj(retain_active(ms)[i])]]

\* update_model
update_model(s, as, ms, bs) ==
    [asteroids |-> retain_active([i \in 1 .. Len(as) |-> move_obj(as[i])]),
     black_holes |-> retain_active(bs),
     spaceship |-> move_obj(s),
     missiles |-> retain_active([i \in 1 .. Len(ms) |-> move_obj(ms[i])])]

is_empty_bug(as) == retain_active(as) = <<>>

\* main, line 635: asteroids.is_empty(), tested between check_collision and
\* update_model
is_empty(as) == as = <<>>

\* the values of get_frame_time() a frame is tried with, in half seconds
FrameTimes == {1, 2}

countdown_bug(s, dt) ==
    IF s.invincible
    THEN IF s.invincibility_timer - dt <= 0
         THEN [s EXCEPT !.invincibility_timer = @ - dt, !.invincible = FALSE]
         ELSE [s EXCEPT !.invincibility_timer = @ - dt]
    ELSE s

\* main, lines 668-674: the invincibility countdown
countdown(s, dt) ==
    IF s.invincible
    THEN IF s.invincibility_timer - dt <= 0
         THEN [s EXCEPT !.invincibility_timer = @ - dt, !.invincible = FALSE,
                        !.hit = FALSE]
         ELSE [s EXCEPT !.invincibility_timer = @ - dt]
    ELSE s

----------------------------------------------------------------------------
(* main.rs: main *)

play_once_bug(latch) == [played |-> 1, latch |-> TRUE]

\* "if !latch { play_sound(..); latch = true; }": the number of cues played
\* and the latch afterwards
play_once(latch) == [played |-> IF latch THEN 0 ELSE 1, latch |-> TRUE]

after_pass_bug(gs, ret) == IF ret THEN "StartScreen" ELSE gs

\* main, lines 613-633: "if check_collision(..) { game_state = GameOver }"
after_pass(gs, ret) == IF ret THEN "GameOver" ELSE gs

\* main, lines 562-578
Init ==
    /\ game_state = "StartScreen"
    /\ running = TRUE
    /\ spaceship = Spaceship_new
    /\ \E draws \in BatchDraws(num_asteroids(1)) :
          asteroids = start_new_wave(<<>>, 1, draws)
    /\ missiles = <<>>
    /\ black_holes = <<>>
    /\ wave = 1
    /\ score = 0
    /\ start_game_sound = FALSE
    /\ end_game_sound = FALSE
    /\ ticks = 0
    /\ sessions = 0
    /\ cues = [start |-> 0, game_over |-> 0]
    /\ obs = [kind |-> "init"]
    /\ unit = HarnessIdle

\* GameState::StartScreen, the "Jouer" button pressed
StartGame ==
    /\ running
    /\ game_state = "StartScreen"
    /\ game_state' = "Playing"
    /\ cues' = [cues EXCEPT !.start = 0]
    /\ obs' = [kind |-> "start"]
    /\ UNCHANGED <<running, spaceship, asteroids, missiles, black_holes, wave,
                   score, start_game_sound, end_game_sound, ticks, sessions,
                   unit>>

\* std::process::exit(0) from the "Quitter" button of the start screen or of
\* the game over screen (after the game over sound of that frame)
QuitFromScreen ==
    /\ running
    /\ game_state \in {"StartScreen", "GameOver"}
    /\ running' = FALSE
    /\ end_game_sound' = IF game_state = "GameOver"
                         THEN play_once(end_game_sound).latch
                         ELSE end_game_sound
    /\ cues' = IF game_state = "GameOver"
               THEN [cues EXCEPT !.game_over = @ + play_once(end_game_sound).played]
               ELSE cues
    /\ obs' = [kind |-> "quit"]
    /\ UNCHANGED <<game_state, spaceship, asteroids, missiles, black_holes,
                   wave, score, start_game_sound, ticks, sessions, unit>>

\* GameState::Playing, Escape down: handle_input returns true and the loop ends
QuitPlaying ==
    /\ running
    /\ game_state = "Playing"
    /\ running' = FALSE
    /\ start_game_sound' = play_once(start_game_sound).latch
    /\ cues' = [cues EXCEPT !.start = @ + play_once(start_game_sound).played]
    /\ obs' = [kind |-> "quit"]
    /\ UNCHANGED <<game_state, spaceship, asteroids, missiles, black_holes,
                   wave, score, end_game_sound, ticks, sessions, unit>>

\* the rest of a Playing frame once the collision pass p has run on the
\* objects `input` left by handle_input: game over, new wave, update_model,
\* invincibility countdown.  obs.tally counts, for the wave the pass ran in
\* (since the frame that followed its spawn, or since the run began): the
\* asteroids the wave began with, those deactivated and the fragments made.
FinishFrame(dt, input, p, cleared, draws) ==
    LET c == IF cleared
             THEN wave_clear(p.spaceship, p.asteroids, p.score, wave, draws)
             ELSE [spaceship |-> p.spaceship, asteroids |-> p.asteroids,
                   score |-> p.score, wave |-> wave]
        m == update_model(c.spaceship, c.asteroids, p.missiles, p.black_holes)
        before == IF obs.kind = "frame" /\ ~obs.wave_clear
                  THEN obs.tally
                  ELSE [roots |-> Len(asteroids), destroyed |-> 0,
                        fragments |-> 0]
    IN  /\ game_state' = after_pass(game_state, p.ret)
        /\ score' = c.score
        /\ wave' = c.wave
        /\ asteroids' = m.asteroids
        /\ black_holes' = m.black_holes
        /\ missiles' = m.missiles
        /\ spaceship' = countdown(m.spaceship, dt)
        /\ start_game_sound' = play_once(start_game_sound).latch
        /\ cues' = [start |-> cues.start + play_once(start_game_sound).played,
                    game_over |-> IF p.ret THEN 0 ELSE cues.game_over]
        /\ ticks' = ticks + 1
        /\ obs' = [kind |-> "frame",
                   pass_in |-> [spaceship |-> input.spaceship,
                                asteroids |-> asteroids,
                                missiles |-> input.missiles,
                                black_holes |-> black_holes,
                                score |-> score],
                   pass_out |-> [spaceship |-> p.spaceship,
                                 asteroids |-> p.asteroids,
                                 missiles |-> p.missiles,
                                 black_holes |-> p.black_holes,
                                 score |-> p.score],
                   calls |-> p.calls, game_over |-> p.ret,
                   wave_clear |-> cleared,
                   spawned |-> Len(c.asteroids) - Len(p.asteroids),
                   tally |-> [roots |-> before.roots,
                              destroyed |-> before.destroyed
                                  + Cardinality({i \in 1 .. Len(p.asteroids) :
                                                   ~p.asteroids[i].active}),
                              fragments |-> before.fragments
                                  + Len(p.asteroids) - Len(asteroids)]]
        /\ UNCHANGED <<running, end_game_sound, sessions, unit>>

\* GameState::Playing, Escape up: one whole frame
PlayingFrame ==
    /\ running
    /\ game_state = "Playing"
    /\ ticks < MaxTicks
    /\ \E keys \in KeyInputs, dt \in FrameTimes :
          /\ keys.space => Len(missiles) < MaxMissiles
          /\ keys.right => spaceship.rotation < MaxRot
          /\ keys.left => spaceship.rotation > -MaxRot
          /\ keys.up \/ keys.down \/ keys.right \/ keys.left
                => ticks < MaxSteerTicks
          /\ \E input \in {handle_input(spaceship, missiles, keys)} :
             \E ds \in SplitDraws(input.spaceship, asteroids, input.missiles,
                                  black_holes) :
                \E p \in {check_collision(input.spaceship, asteroids,
                                         input.missiles, black_holes, score, ds)} :
                    IF is_empty(p.asteroids)
                    THEN /\ wave < MaxWave
                         /\ \E draws \in BatchDraws(num_asteroids(wave + 1)) :
                               FinishFrame(dt, input, p, TRUE, draws)
                    ELSE FinishFrame(dt, input, p, FALSE, <<>>)

\* GameState::GameOver, no button pressed: the game over sound is played once
GameOverFrame ==
    /\ running
    /\ game_state = "GameOver"
    /\ ~end_game_sound
    /\ end_game_sound' = play_once(end_game_sound).latch
    /\ cues' = [cues EXCEPT !.game_over = @ + play_once(end_game_sound).played]
    /\ obs' = [kind |-> "gameover"]
    /\ UNCHANGED <<game_state, running, spaceship, asteroids, missiles,
                   black_holes, wave, score, start_game_sound, ticks,
                   sessions, unit>>

Restart_bug ==
    /\ running
    /\ game_state = "GameOver"
    /\ sessions < MaxSessions
    /\ end_game_sound' = play_once(end_game_sound).latch
    /\ start_game_sound' = play_once(FALSE).latch
    /\ cues' = [start |-> play_once(FALSE).played,
                game_over |-> cues.game_over + play_once(end_game_sound).played]
    /\ game_state' = "Playing"
    /\ spaceship' = Spaceship_new
    /\ \E draws \in BatchDraws(num_asteroids(1)) :
          asteroids' = start_new_wave(asteroids, 1, draws)
    /\ missiles' = <<>>
    /\ black_holes' = <<>>
    /\ wave' = 1
    /\ score' = 0
    /\ ticks' = 0
    /\ sessions' = sessions + 1
    /\ obs' = [kind |-> "restart"]
    /\ UNCHANGED <<running, unit>>

\* GameState::GameOver, the "Rejouer" button pressed
Restart ==
    /\ running
    /\ game_state = "GameOver"
    /\ sessions < MaxSessions
    /\ end_game_sound' = play_once(end_game_sound).latch
    /\ start_game_sound' = play_once(FALSE).latch
    /\ cues' = [start |-> play_once(FALSE).played,
                game_over |-> cues.game_over + play_once(end_game_sound).played]
    /\ game_state' = "Playing"
    /\ spaceship' = Spaceship_new
    /\ \E draws \in BatchDraws(num_asteroids(1)) :
          asteroids' = start_new_wave(<<>>, 1, draws)
    /\ missiles' = <<>>
    /\ black_holes' = <<>>
    /\ wave' = 1
    /\ score' = 0
    /\ ticks' = 0
    /\ sessions' = sessions + 1
    /\ obs' = [kind |-> "restart"]
    /\ UNCHANGED <<running, unit>>

Next ==
    \/ StartGame
    \/ QuitFromScreen
    \/ QuitPlaying
    \/ PlayingFrame
    \/ GameOverFrame
    \/ Restart

Spec == Init /\ [][Next]_vars

\* main, `loop { .. next_frame().await }`: a step that runs a Playing frame,
\* told by its guard and by the frame count it raises (no other step of Next
\* does both)
NextFrame ==
    /\ running
    /\ game_state = "Playing"
    /\ ticks < MaxTicks
    /\ is_empty(asteroids) => wave < MaxWave
    /\ ticks' = ticks + 1

\* the main loop keeps running frames: while the state is Playing and the
\* frame bound is not reached, a Playing frame is eventually run, unless the
\* loop is left
LiveSpec == Init /\ [][Next]_vars /\ WF_ticks(NextFrame)

----------------------------------------------------------------------------
(* Scenes: a Playing session taken in mid-game, when the ship has flown to  *)
(* a corner and asteroids, missiles and black holes lie around two places:  *)
(* ScenePlaceNear, within reach of the ship, and ScenePlaceFar, out of its  *)
(* reach.  The main loop is run on them for SceneFrames frames.             *)

ScenePlaceShip == <<Px(25), Px(25)>>
ScenePlaceNear == <<Px(40), Px(30)>>
ScenePlaceFar == <<Px(125), Px(85)>>
ScenePlaceAside == <<Px(125), Px(30)>>
\* less than one missile step from the right edge of the screen
ScenePlaceEdge == <<screen_width - Px(MissileSpeedPx) + 1, Px(30)>>

\* the ship: shielded, just hit, vulnerable, or shielded and invincible after
\* a wave clear
SceneShips ==
    {[Spaceship_new EXCEPT !.position = ScenePlaceShip],
     [Spaceship_new EXCEPT !.position = ScenePlaceShip, !.shield = FALSE,
                           !.invincible = TRUE, !.hit = TRUE,
                           !.invincibility_timer = 1],
     [Spaceship_new EXCEPT !.position = ScenePlaceShip, !.shield = FALSE],
     [Spaceship_new EXCEPT !.position = ScenePlaceShip, !.invincible = TRUE,
                           !.invincibility_timer = 1]}

SceneAsteroids ==
    {<<new_with_size("Small", ScenePlaceFar, <<0, -Px(1)>>)>>,
     <<new_with_size("Large", ScenePlaceFar, <<0, -Px(1)>>),
       new_with_size("Small", ScenePlaceFar, <<Px(1), 0>>)>>,
     <<new_with_size("Medium", ScenePlaceNear, <<Px(1), 0>>),
       new_with_size("Large", ScenePlaceFar, <<0, -Px(1)>>)>>,
     <<new_with_size("Small", ScenePlaceNear, <<0, -Px(1)>>),
       new_with_size("Medium", ScenePlaceNear, <<Px(1), 0>>)>>,
     <<new_with_size("Small", ScenePlaceAside, <<Px(1), 0>>),
       new_with_size("Medium", ScenePlaceFar, <<0, -Px(1)>>)>>,
     <<new_with_size("Medium", ScenePlaceFar, <<Px(1), 0>>),
       new_with_size("Large", ScenePlaceFar, <<0, -Px(1)>>)>>,
     <<new_with_size("Small", ScenePlaceNear, <<0, -Px(1)>>)>>,
     <<>>}

SceneMissiles ==
    {<<>>,
     <<Missile_new(ScenePlaceFar, 0)>>,
     <<Missile_new(ScenePlaceFar, 0), Missile_new(ScenePlaceFar, 0)>>,
     <<Missile_new(ScenePlaceFar, 0), Missile_new(<<Px(75), Px(100)>>, 0)>>,
     <<Missile_new(ScenePlaceFar, 0), Missile_new(ScenePlaceFar, 0),
       Missile_new(ScenePlaceFar, 0)>>,
     <<Missile_new(ScenePlaceEdge, 0)>>}

\* black holes left by a Large asteroid near the ship and by a Small one far
\* from it, the latter after `hits` handled collisions
SceneBlackHoles ==
    {<<>>, <<BlackHole_new(ScenePlaceNear, scale("Large"))>>}
    \cup {<<[BlackHole_new(ScenePlaceFar, scale("Small")) EXCEPT !.counter = hits]>> :
            hits \in {0, 3, 4, 5}}
    \cup {<<BlackHole_new(ScenePlaceNear, scale("Large")),
            [BlackHole_new(ScenePlaceFar, scale("Small")) EXCEPT !.counter = 4]>>}

SceneInit ==
    /\ game_state = "Playing"
    /\ running = TRUE
    /\ spaceship \in SceneShips
    /\ asteroids \in SceneAsteroids
    /\ missiles \in SceneMissiles
    /\ black_holes \in SceneBlackHoles
    /\ wave = 1
    /\ score = 0
    /\ start_game_sound = TRUE
    /\ end_game_sound = FALSE
    /\ ticks = MaxTicks - SceneFrames
    /\ sessions = 0
    /\ cues = [start |-> 1, game_over |-> 0]
    /\ obs = [kind |-> "scene"]
    /\ unit = HarnessIdle

SceneNext ==
    \/ QuitFromScreen
    \/ QuitPlaying
    \/ PlayingFrame
    \/ GameOverFrame

SceneSpec == SceneInit /\ [][SceneNext]_vars

\* the scenes, with the main loop running its frames as in LiveSpec
LiveSceneSpec == SceneInit /\ [][SceneNext]_vars /\ WF_ticks(NextFrame)

----------------------------------------------------------------------------
(* Split chains: a wave taken at its first frame, one Large asteroid out of  *)
(* the ship's reach with three missiles in flight over it, so that the       *)
(* asteroid and its fragments are shot frame after frame.  The main loop is  *)
(* run on it for ChainFrames frames.                                         *)

ChainShips ==
    {[Spaceship_new EXCEPT !.position = ScenePlaceShip],
     [Spaceship_new EXCEPT !.position = ScenePlaceShip, !.shield = FALSE]}

ChainAsteroids ==
    {<<new_with_size("Large", ScenePlaceFar, <<0, -Px(1)>>)>>,
     <<new_with_size("Large", ScenePlaceFar, <<0, -Px(1)>>),
       new_with_size("Small", ScenePlaceFar, <<Px(1), 0>>)>>,
     <<new_with_size("Small", ScenePlaceNear, <<0, -Px(1)>>),
       new_with_size("Large", ScenePlaceFar, <<0, -Px(1)>>)>>}

ChainMissiles ==
    {<<Missile_new(ScenePlaceFar, 0), Missile_new(ScenePlaceFar, 0),
       Missile_new(ScenePlaceFar, 0)>>}

ChainBlackHoles ==
    {<<>>, <<BlackHole_new(ScenePlaceFar, scale("Small"))>>}

ChainInit ==
    /\ game_state = "Playing"
    /\ running = TRUE
    /\ spaceship \in ChainShips
    /\ asteroids \in ChainAsteroids
    /\ missiles \in ChainMissiles
    /\ black_holes \in ChainBlackHoles
    /\ wave = 1
    /\ score = 0
    /\ start_game_sound = TRUE
    /\ end_game_sound = FALSE
    /\ ticks = MaxTicks - ChainFrames
    /\ sessions = 0
    /\ cues = [start |-> 1, game_over |-> 0]
    /\ obs = [kind |-> "scene"]
    /\ unit = HarnessIdle

ChainSpec == ChainInit /\ [][SceneNext]_vars

----------------------------------------------------------------------------
(* Claims on single functions, checked under HarnessSpec *)

C2_ShipHandleCollision ==
    (unit.op = "handle_collision" /\ unit.arg.kind = "Spaceship") =>
        IF unit.arg.shield
        THEN /\ unit.a.shield = FALSE
             /\ unit.a.invincible = TRUE
             /\ unit.a.invincibility_timer = 4
             /\ unit.a.hit = TRUE
             /\ unit.a.active = unit.arg.active
             /\ unit.a.position = unit.arg.position
             /\ unit.a.velocity = unit.arg.velocity
             /\ unit.a.rotation = unit.arg.rotation
        ELSE /\ unit.a.active = FALSE
             /\ unit.a = [unit.arg EXCEPT !.active = FALSE]

\* C2 witness: a shielded ship was hit, then hit again without its shield.
C2_Witness ==
    /\ unit.op = "handle_collision"
    /\ unit.ctor.fn = "Spaceship"
    /\ unit.ctor.obj.shield /\ unit.ctor.obj.active /\ ~unit.ctor.obj.invincible
    /\ unit.ncalls = 2
    /\ ~unit.arg.shield /\ unit.arg.invincible /\ unit.arg.hit /\ unit.arg.active
    /\ ~unit.a.active /\ unit.a.invincible /\ unit.a.hit

\* C4 (as claimed): a black hole created with counter 0 is still active with
\* counter 4 after exactly 4 handle_collision calls and is inactive after
\* exactly 5.
C4_FiveCollisionsDeactivate ==
    (unit.ctor.fn = "BlackHole::new" /\ unit.nmoves = 0) =>
        /\ unit.ncalls = 4 => (unit.a.active /\ unit.a.counter = 4)
        /\ unit.ncalls = 5 => ~unit.a.active

\* C5: Asteroid::split of a Large asteroid returns exactly two Medium
\* asteroids, of a Medium one exactly two Small asteroids, of a Small one
\* None; the parent keeps its size.
C5_SplitSizes ==
    unit.op = "split" =>
        /\ unit.arg.size = "Large" =>
              /\ Len(unit.ret) = 2
              /\ unit.ret[1].size = "Medium" /\ unit.ret[2].size = "Medium"
        /\ unit.arg.size = "Medium" =>
              /\ Len(unit.ret) = 2
              /\ unit.ret[1].size = "Small" /\ unit.ret[2].size = "Small"
        /\ unit.arg.size = "Small" => unit.ret = <<>>
        /\ unit.a.size = unit.arg.size

\* C5 witness: a Medium asteroid was split in two Small ones.
C5_Witness ==
    /\ unit.op = "split"
    /\ unit.arg.size = "Medium"
    /\ Len(unit.ret) = 2
    /\ unit.ret[1].size = "Small"

\* C6: when Asteroid::split returns two fragments, both are active, both are
\* at the parent's position, and their velocities are the parent's plus and
\* minus the one perturbation drawn (so they add up to twice the parent's).
C6_SplitFragments ==
    (unit.op = "split" /\ unit.ret # <<>>) =>
        /\ unit.ret[1].active /\ unit.ret[2].active
        /\ unit.ret[1].position = unit.arg.position
        /\ unit.ret[2].position = unit.arg.position
        /\ unit.ret[1].speed = <<unit.arg.speed[1] + unit.draw[1],
                                 unit.arg.speed[2] + unit.draw[2]>>
        /\ unit.ret[2].speed = <<unit.arg.speed[1] - unit.draw[1],
                                 unit.arg.speed[2] - unit.draw[2]>>
        /\ unit.ret[1].speed[1] + unit.ret[2].speed[1] = 2 * unit.arg.speed[1]
        /\ unit.ret[1].speed[2] + unit.ret[2].speed[2] = 2 * unit.arg.speed[2]

\* C6 witness: a split with a perturbation that is not zero, after the
\* parent has moved.
C6_Witness ==
    /\ unit.op = "split"
    /\ unit.nmoves > 0
    /\ Len(unit.ret) = 2
    /\ unit.draw # <<0, 0>>
    /\ unit.ret[1].speed # unit.ret[2].speed

\* C9 (as claimed): for any coordinate p and screen dimension D > 0 the wrap
\* returns a value in [0, D) equal to ((p mod D) + D) mod D, and wrapping that
\* value again returns it unchanged.
C9_WrapInRange ==
    unit.op = "wrap_around_screen" =>
        /\ unit.a.position[1] >= 0 /\ unit.a.position[1] < screen_width
        /\ unit.a.position[2] >= 0 /\ unit.a.position[2] < screen_height
        /\ unit.nmoves = 1 =>
              /\ unit.a.position[1]
                    = (Rem(unit.arg[1], screen_width) + screen_width) % screen_width
              /\ unit.a.position[2]
                    = (Rem(unit.arg[2], screen_height) + screen_height) % screen_height
        /\ unit.nmoves = 2 => unit.a.position = unit.arg

\* C10: one move_obj moves an object by exactly its velocity when the new
\* position is inside the screen; a missile fired at rotation 0 has velocity
\* (4, 0) and after n moves that do not leave the screen it is still active
\* at its start plus n * (4, 0).
C10_MoveByVelocity ==
    /\ unit.op = "move_obj" =>
          LET v == velocity_of(unit.arg)
              q == <<unit.arg.position[1] + v[1], unit.arg.position[2] + v[2]>>
          IN  (/\ q[1] >= 0 /\ q[1] < screen_width
               /\ q[2] >= 0 /\ q[2] < screen_height)
              => unit.a.position = q
    /\ (unit.ctor.fn = "Missile::new" /\ unit.ctor.rotation = 0) =>
          /\ unit.ctor.obj.velocity = <<Px(4), 0>>
          /\ LET q == <<unit.ctor.obj.position[1] + unit.nmoves * Px(4),
                        unit.ctor.obj.position[2]>>
             IN  (/\ unit.ncalls = 0
                  /\ q[1] >= 0 /\ q[1] < screen_width
                  /\ q[2] >= 0 /\ q[2] < screen_height)
                 => (unit.a.active /\ unit.a.position = q)

\* C10 witness: the missile fired from (100, 100) at rotation 0 is at
\* (140, 100), active, after 10 moves.
C10_Witness ==
    /\ unit.ctor.fn = "Missile::new"
    /\ unit.ctor.rotation = 0
    /\ unit.ctor.obj.position = <<Px(100), Px(100)>>
    /\ unit.op = "move_obj"
    /\ unit.nmoves = 10
    /\ unit.ncalls = 0
    /\ unit.a.active
    /\ unit.a.position = <<Px(140), Px(100)>>

\* C11 (as claimed): after Missile::move_obj the position is the old one plus
\* the velocity, never wrapped, and the missile is inactive exactly when it
\* was inactive before or the new position is outside
\* [0, screen_width) x [0, screen_height): a coordinate equal to screen_width
\* or screen_height deactivates it.
C11_MissileLeavesScreen ==
    (unit.op = "move_obj" /\ unit.arg.kind = "Missile") =>
        /\ unit.a.position = VAdd(unit.arg.position, unit.arg.velocity)
        /\ ~unit.a.active <=>
              \/ ~unit.arg.active
              \/ ~(/\ unit.a.position[1] >= 0
                   /\ unit.a.position[1] < screen_width
                   /\ unit.a.position[2] >= 0
                   /\ unit.a.position[2] < screen_height)

----------------------------------------------------------------------------
(* Claims on the main loop, checked under Spec.  obs holds what the last    *)
(* Playing frame did: the objects and the score as the collision pass got    *)
(* them (pass_in) and left them (pass_out), and its handle_collision calls.  *)

\* the last step was a Playing frame whose collision pass left no asteroid,
\* so that the wave-clear sequence ran
WaveClearFrame == obs.kind = "frame" /\ obs.pass_out.asteroids = <<>>

\* C3: when the ship is invincible as check_collision starts, the pass calls
\* no handle_collision, whatever the geometry: the score, the ship, every
\* asteroid, missile and black hole (flags, counters, order and number) are
\* as before the pass, and the pass reports no game over.
C3_InvinciblePassNoOp ==
    (obs.kind = "frame" /\ obs.pass_in.spaceship.invincible) =>
        /\ obs.calls = <<>>
        /\ obs.pass_out = obs.pass_in
        /\ ~obs.game_over

\* an invincible ship enters the pass while an asteroid overlaps it
C3_Witness ==
    /\ obs.kind = "frame"
    /\ obs.pass_in.spaceship.invincible
    /\ \E i \in 1 .. Len(obs.pass_in.asteroids) :
          DistanceBelow(get_pos(obs.pass_in.asteroids[i]),
                        get_pos(obs.pass_in.spaceship),
                        radius(obs.pass_in.asteroids[i])
                            + radius(obs.pass_in.spaceship))
    /\ obs.calls = <<>>
    /\ obs.pass_out = obs.pass_in

\* C7: a Playing frame in which the wave-clear sequence runs raises the wave
\* counter by exactly 1 and the score by exactly 10 (over the score the
\* collision pass of that frame left); any other step that changes the wave
\* counter is the restart, which sets it to 1.
C7_WaveClearStep ==
    [][/\ WaveClearFrame' =>
            /\ wave' = wave + 1
            /\ score' = obs'.pass_out.score + 10
       /\ wave' # wave =>
            \/ WaveClearFrame'
            \/ obs'.kind = "restart" /\ wave' = 1]_vars

\* the second wave clear of a game has just run
C7_Witness ==
    /\ WaveClearFrame
    /\ wave = 3
    /\ score = obs.pass_out.score + 10

\* C8 as stated: the wave clear that takes the counter from 1 to 2 spawns 5
\* asteroids and the one that takes it from 2 to 3 spawns 6.
C8_SpawnsFivePlusWaveMinusOne ==
    WaveClearFrame =>
        /\ wave = 2 => obs.spawned = 5
        /\ wave = 3 => obs.spawned = 6

\* C8 amended: start_new_wave is called with the counter already raised, so
\* the wave clear that takes the counter from 1 to 2 spawns 6 asteroids and
\* the one that takes it from 2 to 3 spawns 7: clearing wave w spawns 5 + w,
\* and every spawned asteroid is in the collection at the end of the frame.
C8_SpawnsFivePlusWave ==
    WaveClearFrame =>
        /\ obs.spawned = 5 + (wave - 1)
        /\ wave = 2 => obs.spawned = 6
        /\ wave = 3 => obs.spawned = 7
        /\ Len(asteroids) = obs.spawned

\* the wave clear that takes the counter from 1 to 2 has spawned 6 asteroids
C8_Witness ==
    /\ WaveClearFrame
    /\ wave = 2
    /\ obs.spawned = 6
    /\ Len(asteroids) = 6

\* C14: the game state starts as StartScreen; it changes only from
\* StartScreen to Playing (start), from Playing to GameOver (in a frame whose
\* collision pass returned true) and from GameOver to Playing (restart); a
\* frame whose pass returned true always ends in GameOver.
C14_GameStateMachine ==
    /\ game_state = "StartScreen"
    /\ [][/\ game_state' # game_state =>
               \/ /\ game_state = "StartScreen" /\ game_state' = "Playing"
                  /\ obs'.kind = "start"
               \/ /\ game_state = "Playing" /\ game_state' = "GameOver"
                  /\ ticks' = ticks + 1 /\ obs'.game_over
               \/ /\ game_state = "GameOver" /\ game_state' = "Playing"
                  /\ obs'.kind = "restart"
          /\ (ticks' = ticks + 1 /\ obs'.game_over) =>
               (game_state = "Playing" /\ game_state' = "GameOver")]_vars

\* a second game over, after start, game over and restart
C14_Witness ==
    /\ game_state = "GameOver"
    /\ sessions = 1
    /\ obs.kind = "frame"
    /\ obs.game_over

\* C15: right after a restart the wave is 1, the score 0, there is no missile
\* and no black hole, the asteroids are exactly 5 active ones and the ship is
\* a new one (active, shielded, not invincible, not hit, at rest).
C15_RestartResets ==
    obs.kind = "restart" =>
        /\ game_state = "Playing"
        /\ wave = 1
        /\ score = 0
        /\ missiles = <<>>
        /\ black_holes = <<>>
        /\ Len(asteroids) = 5
        /\ \A i \in 1 .. Len(asteroids) : asteroids[i].active
        /\ spaceship.active
        /\ spaceship.shield
        /\ ~spaceship.invincible
        /\ ~spaceship.hit
        /\ spaceship.velocity = <<0, 0>>

\* the game has just been restarted
C15_Witness ==
    /\ obs.kind = "restart"
    /\ sessions = 1
    /\ ticks = 0
    /\ Len(asteroids) = 5
    /\ score = 0

\* C16 (as claimed): whenever a GameOver period ends, by a restart or by
\* leaving the program, the game over cue was played exactly once in it.
C16_GameOverCueOnce ==
    [][(/\ running
        /\ game_state = "GameOver"
        /\ ~running' \/ game_state' = "Playing") =>
            cues'.game_over = 1]_vars

\* C17: in every Playing session that has run a frame, and in the GameOver
\* period that follows it, the start cue was played exactly once since the
\* session was entered; it is never played twice.
C17_StartCueOnce ==
    /\ cues.start <= 1
    /\ (game_state # "StartScreen" /\ obs.kind # "start") => cues.start = 1

\* a session entered by restart has run several frames
C17_Witness ==
    /\ game_state = "Playing"
    /\ sessions = 1
    /\ ticks >= 3
    /\ cues.start = 1

----------------------------------------------------------------------------
(* Claims on the collision pass, checked under SceneSpec.  The overlaps are  *)
(* computed here from the objects the pass got (obs.pass_in).                *)

Overlap(a, b) ==
    DistanceBelow(a.position, b.position, radius(a) + radius(b))

Min(S) == CHOOSE x \in S : \A y \in S : x <= y
Max(S) == CHOOSE x \in S : \A y \in S : x >= y

\* the last step was a Playing frame whose pass met a ship that was not
\* invincible
PassRan == obs.kind = "frame" /\ ~obs.pass_in.spaceship.invincible

\* the asteroids, and the black holes, that overlap the ship
ShipHitters ==
    {i \in 1 .. Len(obs.pass_in.asteroids) :
        Overlap(obs.pass_in.asteroids[i], obs.pass_in.spaceship)}
ShipSwallowers ==
    {b \in 1 .. Len(obs.pass_in.black_holes) :
        Overlap(obs.pass_in.black_holes[b], obs.pass_in.spaceship)}

\* the pass went on to its last three loops
ReachedLastLoops == PassRan /\ ShipHitters = {} /\ ShipSwallowers = {}

\* the asteroids, and the missiles, that overlap black hole b
AsteroidsOn(b) ==
    {i \in 1 .. Len(obs.pass_in.asteroids) :
        Overlap(obs.pass_in.asteroids[i], obs.pass_in.black_holes[b])}
MissilesOn(b) ==
    {j \in 1 .. Len(obs.pass_in.missiles) :
        Overlap(obs.pass_in.missiles[j], obs.pass_in.black_holes[b])}

\* the missiles that overlap asteroid i, and the asteroids some missile overlaps
MissilesAt(i) ==
    {j \in 1 .. Len(obs.pass_in.missiles) :
        Overlap(obs.pass_in.asteroids[i], obs.pass_in.missiles[j])}
ShotAsteroids ==
    {i \in 1 .. Len(obs.pass_in.asteroids) : MissilesAt(i) # {}}

\* black hole b, active, takes its 5th handled collision from a missile in
\* this pass (the asteroids are handled before the missiles)
FifthIsMissile(b) ==
    /\ obs.pass_in.black_holes[b].active
    /\ obs.pass_in.black_holes[b].counter + Cardinality(AsteroidsOn(b)) < 5
    /\ obs.pass_in.black_holes[b].counter + Cardinality(AsteroidsOn(b))
          + Cardinality(MissilesOn(b)) >= 5

\* C12 (as claimed): a black hole whose 5th handled collision is a missile
\* hit of this pass is inactive after the pass and gone from the collection
\* after the cleanup of the frame, and the pass adds 10 to the score for it
\* (besides 1 for every asteroid shot); missile hits on other black holes
\* add nothing.
C12_FifthMissileHitScores ==
    ReachedLastLoops =>
        /\ \A b \in 1 .. Len(obs.pass_in.black_holes) :
              FifthIsMissile(b) => ~obs.pass_out.black_holes[b].active
        /\ Len(black_holes)
              = Cardinality({b \in 1 .. Len(obs.pass_out.black_holes) :
                                obs.pass_out.black_holes[b].active})
        /\ obs.pass_out.score
              = obs.pass_in.score + Cardinality(ShotAsteroids)
                + 10 * Cardinality({b \in 1 .. Len(obs.pass_in.black_holes) :
                                      FifthIsMissile(b)})

\* the black holes that overlap asteroid i
BlackHolesAt(i) ==
    {b \in 1 .. Len(obs.pass_in.black_holes) :
        Overlap(obs.pass_in.asteroids[i], obs.pass_in.black_holes[b])}

\* the missile hits on black hole b, numbered in the order handled, that
\* find it at counter 5 (or inactive) and so leave it inactive
BonusHits(b) ==
    {k \in 1 .. Cardinality(MissilesOn(b)) :
        \/ ~obs.pass_in.black_holes[b].active
        \/ obs.pass_in.black_holes[b].counter + Cardinality(AsteroidsOn(b))
              + (k - 1) >= 5}

RECURSIVE BonusHitsUpTo(_)
BonusHitsUpTo(n) ==
    IF n = 0 THEN 0 ELSE BonusHitsUpTo(n - 1) + Cardinality(BonusHits(n))

\* the places in the call log where asteroid i and a missile are handled
ShotCalls(i) ==
    {k \in 1 .. Len(obs.calls) - 1 :
        obs.calls[k] = <<"Asteroid", i>> /\ obs.calls[k + 1][1] = "Missile"}

\* C13: in a pass that reaches the asteroid x missile loop, an asteroid that
\* overlaps a missile ends inactive, is handled once with one missile, the
\* overlapping one of highest index, which ends inactive; an asteroid that
\* overlaps no missile is not handled with any and is as the earlier loops
\* left it.  The missiles deactivated are those and the ones a black hole
\* took.  The pass queues 2 fragments for every Large or Medium asteroid
\* shot and none for a Small one, and adds 1 to the score per asteroid shot
\* (besides the 10 per missile hit that leaves a black hole inactive).
C13_AsteroidMissileLoop ==
    ReachedLastLoops =>
        /\ \A i \in 1 .. Len(obs.pass_in.asteroids) :
              IF MissilesAt(i) = {}
              THEN /\ ShotCalls(i) = {}
                   /\ obs.pass_out.asteroids[i]
                        = [obs.pass_in.asteroids[i] EXCEPT
                              !.active = @ /\ BlackHolesAt(i) = {}]
              ELSE /\ Cardinality(ShotCalls(i)) = 1
                   /\ \A k \in ShotCalls(i) :
                         obs.calls[k + 1] = <<"Missile", Max(MissilesAt(i))>>
                   /\ obs.pass_out.asteroids[i]
                        = [obs.pass_in.asteroids[i] EXCEPT !.active = FALSE]
                   /\ ~obs.pass_out.missiles[Max(MissilesAt(i))].active
        /\ Len(obs.pass_out.missiles) = Len(obs.pass_in.missiles)
        /\ \A j \in 1 .. Len(obs.pass_in.missiles) :
              obs.pass_out.missiles[j]
                = [obs.pass_in.missiles[j] EXCEPT
                      !.active = /\ @
                                 /\ \A i \in ShotAsteroids : j # Max(MissilesAt(i))
                                 /\ \A b \in 1 .. Len(obs.pass_in.black_holes) :
                                       j \notin MissilesOn(b)]
        /\ Len(obs.pass_out.asteroids)
              = Len(obs.pass_in.asteroids)
                + 2 * Cardinality({i \in ShotAsteroids :
                        obs.pass_in.asteroids[i].size \in {"Large", "Medium"}})
        /\ obs.pass_out.score
              = obs.pass_in.score + Cardinality(ShotAsteroids)
                + 10 * BonusHitsUpTo(Len(obs.pass_in.black_holes))

\* a Medium asteroid under two missiles is shot and split while another
\* asteroid, under no missile, is left alone
C13_Witness ==
    /\ ReachedLastLoops
    /\ \E i \in ShotAsteroids :
          /\ Cardinality(MissilesAt(i)) >= 2
          /\ obs.pass_in.asteroids[i].size = "Medium"
          /\ ~obs.pass_out.asteroids[i].active
    /\ \E i \in 1 .. Len(obs.pass_in.asteroids) :
          MissilesAt(i) = {} /\ obs.pass_out.asteroids[i].active
    /\ Len(obs.pass_out.asteroids) = Len(obs.pass_in.asteroids) + 2
    /\ obs.pass_out.score = obs.pass_in.score + 1

\* C18 (as claimed): when an asteroid collides with the ship, active and not
\* invincible, be it shielded or not, the pass takes 5 from the score, adds
\* a black hole at that asteroid's position, handles nothing else and
\* reports no game over.
C18_ShipHitNeverGameOver ==
    (PassRan /\ ShipHitters # {} /\ obs.pass_in.spaceship.active) =>
        /\ obs.pass_out.score = obs.pass_in.score - 5
        /\ Len(obs.pass_out.black_holes) = Len(obs.pass_in.black_holes) + 1
        /\ obs.pass_out.black_holes[Len(obs.pass_out.black_holes)].position
              = obs.pass_in.asteroids[Min(ShipHitters)].position
        /\ obs.calls = <<<<"Asteroid", Min(ShipHitters)>>, <<"Spaceship", 1>>>>
        /\ ~obs.game_over

\* C18 amended: when an asteroid collides with a ship that is active and not
\* invincible, only the first such asteroid and the ship are handled and nothing else
\* in the pass; if the ship had its shield, the pass takes 5 from the score,
\* adds a black hole at that asteroid's position and reports no game over;
\* if the ship had no shield, the ship ends inactive, the score and the
\* black holes are unchanged and the pass reports game over.
C18_ShipHitByShield ==
    (PassRan /\ ShipHitters # {} /\ obs.pass_in.spaceship.active) =>
        /\ obs.calls = <<<<"Asteroid", Min(ShipHitters)>>, <<"Spaceship", 1>>>>
        /\ obs.pass_out.missiles = obs.pass_in.missiles
        /\ obs.pass_out.asteroids
              = [obs.pass_in.asteroids EXCEPT ![Min(ShipHitters)].active = FALSE]
        /\ IF obs.pass_in.spaceship.shield
           THEN /\ obs.pass_out.score = obs.pass_in.score - 5
                /\ Len(obs.pass_out.black_holes)
                      = Len(obs.pass_in.black_holes) + 1
                /\ obs.pass_out.black_holes[Len(obs.pass_out.black_holes)].position
                      = obs.pass_in.asteroids[Min(ShipHitters)].position
                /\ obs.pass_out.spaceship.active
                /\ ~obs.game_over
                /\ game_state = "Playing"
           ELSE /\ obs.pass_out.score = obs.pass_in.score
                /\ obs.pass_out.black_holes = obs.pass_in.black_holes
                /\ ~obs.pass_out.spaceship.active
                /\ obs.game_over
                /\ game_state = "GameOver"

\* two asteroids overlap a shielded ship while missiles overlap other
\* things: only the first asteroid is handled
C18_Witness ==
    /\ PassRan
    /\ Cardinality(ShipHitters) >= 2
    /\ obs.pass_in.spaceship.shield
    /\ obs.pass_in.missiles # <<>>
    /\ obs.pass_out.score = obs.pass_in.score - 5
    /\ ~obs.game_over

\* C19: a Playing frame adds a black hole exactly when its pass meets a
\* shielded ship, not invincible, that an asteroid overlaps, and then adds
\* one only: active, with counter 0, at the position of the first such
\* asteroid, with radius 50, 35 or 20 for a Large, Medium or Small one.  The
\* black holes already there keep their positions through the pass, and the
\* cleanup keeps the active ones as they are.
C19_BlackHoleSpawn ==
    obs.kind = "frame" =>
        /\ Len(obs.pass_out.black_holes) - Len(obs.pass_in.black_holes)
              = IF /\ ~obs.pass_in.spaceship.invincible
                   /\ obs.pass_in.spaceship.shield
                   /\ ShipHitters # {}
                THEN 1 ELSE 0
        /\ Len(obs.pass_out.black_holes) > Len(obs.pass_in.black_holes) =>
              LET b == obs.pass_out.black_holes[Len(obs.pass_out.black_holes)]
                  a == obs.pass_in.asteroids[Min(ShipHitters)]
              IN  /\ b.active
                  /\ b.counter = 0
                  /\ b.position = a.position
                  /\ radius(b) = CASE a.size = "Large" -> Px(50)
                                    [] a.size = "Medium" -> Px(35)
                                    [] a.size = "Small" -> Px(20)
        /\ \A k \in 1 .. Len(obs.pass_in.black_holes) :
              obs.pass_out.black_holes[k].position
                = obs.pass_in.black_holes[k].position
        /\ black_holes
              = SelectSeq(obs.pass_out.black_holes, LAMBDA b : b.active)

\* a Medium asteroid has hit a shielded ship where a black hole already was
C19_Witness ==
    /\ obs.kind = "frame"
    /\ ~obs.pass_in.spaceship.invincible
    /\ obs.pass_in.spaceship.shield
    /\ ShipHitters # {}
    /\ obs.pass_in.asteroids[Min(ShipHitters)].size = "Medium"
    /\ obs.pass_in.black_holes # <<>>
    /\ Len(black_holes) = Len(obs.pass_in.black_holes) + 1
    /\ radius(black_holes[Len(black_holes)]) = Px(35)

\* C20: when the ship is not invincible, no asteroid overlaps it and a black
\* hole does, the pass handles the first such black hole and the ship and
\* nothing else (the asteroids, the missiles and the score are left as they
\* were), it reports game over and the frame ends in GameOver, with the
\* shield up or down.
C20_BlackHoleSwallowsShip ==
    (PassRan /\ ShipHitters = {} /\ ShipSwallowers # {}) =>
        /\ obs.game_over
        /\ game_state = "GameOver"
        /\ obs.calls = <<<<"BlackHole", Min(ShipSwallowers)>>, <<"Spaceship", 1>>>>
        /\ obs.pass_out.asteroids = obs.pass_in.asteroids
        /\ obs.pass_out.missiles = obs.pass_in.missiles
        /\ obs.pass_out.score = obs.pass_in.score

\* a shielded ship is over a black hole while a missile is over an asteroid
C20_Witness ==
    /\ PassRan
    /\ ShipHitters = {}
    /\ ShipSwallowers # {}
    /\ obs.pass_in.spaceship.shield
    /\ ShotAsteroids # {}
    /\ obs.game_over
    /\ game_state = "GameOver"

\* C21: every black hole of the collection, and every black hole a collision
\* pass leaves behind, has its counter in 0 .. 5 and is inactive only with
\* counter 5; a pass never lowers the counter of a black hole.
C21_BlackHoleCounter ==
    /\ \A k \in DOMAIN black_holes :
          /\ black_holes[k].counter \in 0 .. 5
          /\ ~black_holes[k].active => black_holes[k].counter = 5
    /\ obs.kind = "frame" =>
          \A k \in DOMAIN obs.pass_out.black_holes :
             /\ obs.pass_out.black_holes[k].counter \in 0 .. 5
             /\ ~obs.pass_out.black_holes[k].active
                   => obs.pass_out.black_holes[k].counter = 5
             /\ k <= Len(obs.pass_in.black_holes)
                   => obs.pass_out.black_holes[k].counter
                        >= obs.pass_in.black_holes[k].counter

\* a pass took a black hole from counter 4 to counter 5 and on to inactive
C21_Witness ==
    /\ obs.kind = "frame"
    /\ \E k \in DOMAIN obs.pass_in.black_holes :
          /\ obs.pass_in.black_holes[k].counter = 4
          /\ obs.pass_out.black_holes[k].counter = 5
          /\ ~obs.pass_out.black_holes[k].active
          /\ Len(black_holes) < Len(obs.pass_out.black_holes)

\* the asteroids a pass splits: the Large and Medium ones a missile overlaps,
\* when the pass gets to its last loop
Splitters ==
    IF ReachedLastLoops
    THEN {i \in ShotAsteroids :
            obs.pass_in.asteroids[i].size \in {"Large", "Medium"}}
    ELSE {}

\* how many asteroids are split before asteroid i
SplitsBefore(i) == Cardinality({h \in Splitters : h < i})

\* C22: a collision pass handles only asteroids that were in the collection
\* when it began; it leaves them at their places in the collection, followed
\* by the two fragments of every asteroid it split, in the order the
\* asteroids were split, each fragment as split() made it (active: no
\* collision of this pass was handled on it, though it lies under the
\* missile that hit its parent).
C22_FragmentsAfterPass ==
    PassRan =>
        /\ \A k \in 1 .. Len(obs.calls) :
              obs.calls[k][1] = "Asteroid"
                 => obs.calls[k][2] <= Len(obs.pass_in.asteroids)
        /\ Len(obs.pass_out.asteroids)
              = Len(obs.pass_in.asteroids) + 2 * Cardinality(Splitters)
        /\ \A i \in 1 .. Len(obs.pass_in.asteroids) :
              /\ obs.pass_out.asteroids[i].position
                    = obs.pass_in.asteroids[i].position
              /\ obs.pass_out.asteroids[i].size = obs.pass_in.asteroids[i].size
              /\ obs.pass_out.asteroids[i].speed = obs.pass_in.asteroids[i].speed
        /\ \A i \in Splitters :
              \E d \in Perturbations :
                 SubSeq(obs.pass_out.asteroids,
                        Len(obs.pass_in.asteroids) + 2 * SplitsBefore(i) + 1,
                        Len(obs.pass_in.asteroids) + 2 * SplitsBefore(i) + 2)
                   = split(obs.pass_in.asteroids[i], d)

\* a pass has split two asteroids under the same missiles
C22_Witness ==
    /\ PassRan
    /\ Cardinality(Splitters) = 2
    /\ Len(obs.pass_out.asteroids) = Len(obs.pass_in.asteroids) + 4
    /\ \E i \in Splitters : MissilesAt(i) # {} /\ SplitsBefore(i) = 1

\* C23: the asteroids, the missiles and the black holes of the collections
\* are all active, in every state and so in what every collision pass is
\* given; the ship is there whatever its active flag.
C23_CollectionsActive ==
    /\ \A k \in DOMAIN asteroids : asteroids[k].active
    /\ \A k \in DOMAIN missiles : missiles[k].active
    /\ \A k \in DOMAIN black_holes : black_holes[k].active
    /\ spaceship.kind = "Spaceship"
    /\ obs.kind = "frame" =>
          /\ \A k \in DOMAIN obs.pass_in.asteroids : obs.pass_in.asteroids[k].active
          /\ \A k \in DOMAIN obs.pass_in.missiles : obs.pass_in.missiles[k].active
          /\ \A k \in DOMAIN obs.pass_in.black_holes :
                obs.pass_in.black_holes[k].active

\* a pass left an asteroid, a missile and a black hole inactive, and the
\* frame has removed them
C23_Witness ==
    /\ obs.kind = "frame"
    /\ \E k \in DOMAIN obs.pass_out.asteroids : ~obs.pass_out.asteroids[k].active
    /\ \E k \in DOMAIN obs.pass_out.missiles : ~obs.pass_out.missiles[k].active
    /\ \E k \in DOMAIN obs.pass_out.black_holes :
          ~obs.pass_out.black_holes[k].active
    /\ Len(asteroids) < Len(obs.pass_out.asteroids)
    /\ Len(missiles) < Len(obs.pass_out.missiles)
    /\ Len(black_holes) < Len(obs.pass_out.black_holes)

\* the step is a Playing frame
FrameStep == obs'.kind = "frame" /\ ticks' = ticks + 1

\* C24 (as claimed): in the frame whose pass leaves every asteroid of a
\* collection that was not empty inactive, with no fragment, the wave-clear
\* sequence fires.
C24_WaveClearSameTick ==
    (/\ obs.kind = "frame"
     /\ obs.pass_in.asteroids # <<>>
     /\ \A k \in DOMAIN obs.pass_out.asteroids :
           ~obs.pass_out.asteroids[k].active)
        => obs.wave_clear

\* C24 (amended): the wave-clear test comes after the collision pass and
\* before the pruning of update_model.  A Playing frame fires the wave-clear
\* sequence (wave + 1, score + 10, a batch of 5 + wave asteroids) iff the
\* asteroid collection is empty when the frame begins.  The frame whose pass
\* deactivates the last asteroids without fragments does not fire it: it
\* leaves the wave as it was and the collection empty, and it is the next
\* Playing frame that fires it.
C24_WaveClearNextTick ==
    [][FrameStep =>
          /\ obs'.wave_clear <=> asteroids = <<>>
          /\ obs'.wave_clear =>
                /\ wave' = wave + 1
                /\ score' = obs'.pass_out.score + 10
                /\ obs'.spawned = 5 + wave
                /\ Len(asteroids') = 5 + wave
          /\ ~obs'.wave_clear =>
                /\ wave' = wave
                /\ score' = obs'.pass_out.score
                /\ obs'.spawned = 0
          /\ (/\ asteroids # <<>>
              /\ \A k \in DOMAIN obs'.pass_out.asteroids :
                    ~obs'.pass_out.asteroids[k].active)
                => ~obs'.wave_clear /\ asteroids' = <<>>]_vars

\* the second frame of a scene has fired the wave-clear sequence, the first
\* one having shot the only asteroid
C24_Witness ==
    /\ obs.kind = "frame"
    /\ obs.wave_clear
    /\ obs.pass_in.asteroids = <<>>
    /\ ticks = MaxTicks
    /\ wave = 2
    /\ Len(asteroids) = 6

\* C25: a frame that fires the wave-clear sequence ends, whatever the ship
\* was, with shield up, hit cleared and the timer at 1.0 s (2 half seconds)
\* less the frame time of that frame's countdown, invincible iff that is
\* above zero; and a frame that begins with such a ship, shielded and
\* invincible, handles no collision: its pass leaves everything as it was
\* and reports no game over.
C25_WaveClearGrace ==
    [][FrameStep =>
          /\ obs'.wave_clear =>
                /\ spaceship'.shield
                /\ ~spaceship'.hit
                /\ \E dt \in FrameTimes :
                      /\ spaceship'.invincibility_timer = 2 - dt
                      /\ spaceship'.invincible <=> 2 - dt > 0
          /\ (spaceship.shield /\ spaceship.invincible) =>
                /\ obs'.calls = <<>>
                /\ ~obs'.game_over
                /\ obs'.pass_out = obs'.pass_in]_vars

\* the sequence fired for a ship that had lost its shield to the last
\* asteroid and was marked hit, and restored it
C25_Witness ==
    /\ obs.kind = "frame"
    /\ obs.wave_clear
    /\ ~obs.pass_in.spaceship.shield
    /\ obs.pass_in.spaceship.hit
    /\ obs.pass_in.spaceship.invincibility_timer > 2
    /\ ticks = MaxTicks
    /\ spaceship.shield
    /\ spaceship.invincible
    /\ spaceship.invincibility_timer = 1

----------------------------------------------------------------------------
(* Claims on the main loop, checked under LiveSpec *)

\* C26: a Playing frame whose ship is invincible when the countdown is
\* reached (it was at the start, or the pass or the wave clear of the frame
\* made it so) lowers the timer by the frame time, once, and leaves the ship
\* not invincible with hit cleared iff the timer is then <= 0; a frame whose
\* ship is not invincible there leaves the timer alone.  Frame times being
\* positive, an invincible ship is eventually not invincible (within the
\* frame bound, when as many frames are left as the timer has half seconds),
\* unless the game leaves Playing, the loop ends or the wave bound stops it.
C26_InvincibilityCountdown ==
    /\ [][FrameStep =>
            LET at_countdown ==
                    IF obs'.wave_clear
                    THEN [obs'.pass_out.spaceship EXCEPT
                             !.invincible = TRUE, !.invincibility_timer = 2,
                             !.hit = FALSE]
                    ELSE obs'.pass_out.spaceship
            IN  /\ at_countdown.invincible =>
                      \E dt \in FrameTimes :
                         /\ dt > 0
                         /\ spaceship'.invincibility_timer
                               = at_countdown.invincibility_timer - dt
                         /\ spaceship'.invincibility_timer <= 0
                               => ~spaceship'.invincible /\ ~spaceship'.hit
                         /\ spaceship'.invincibility_timer > 0
                               => /\ spaceship'.invincible
                                  /\ spaceship'.hit = at_countdown.hit
                /\ ~at_countdown.invincible =>
                      /\ spaceship'.invincibility_timer
                            = spaceship.invincibility_timer
                      /\ ~spaceship'.invincible
                /\ (spaceship.invincible /\ ~obs'.wave_clear) =>
                      /\ spaceship'.invincibility_timer
                            < spaceship.invincibility_timer
                      /\ spaceship.invincibility_timer
                            - spaceship'.invincibility_timer \in FrameTimes]_vars
    /\ (/\ spaceship.invincible
        /\ game_state = "Playing"
        /\ ticks + spaceship.invincibility_timer <= MaxTicks)
          ~> \/ ~spaceship.invincible
             \/ game_state # "Playing"
             \/ ~running
             \/ (asteroids = <<>> /\ wave >= MaxWave)

\* the period begun by a hit has run out within the frames allowed: the
\* ship, hit and invincible at the start of the frame, is neither now
C26_Witness ==
    /\ obs.kind = "frame"
    /\ game_state = "Playing"
    /\ ticks < MaxTicks
    /\ obs.pass_in.spaceship.invincible
    /\ obs.pass_in.spaceship.hit
    /\ ~spaceship.invincible
    /\ ~spaceship.hit
    /\ spaceship.invincibility_timer <= 0

\* C30 (as claimed): whenever the game state is GameOver the ship is
\* inactive.
C30_GameOverShipInactive ==
    game_state = "GameOver" => ~spaceship.active

\* C30 (amended): a Playing frame ends in GameOver exactly when its pass,
\* run for a ship that is not invincible, finds an asteroid on a ship whose
\* shield is down or, no asteroid being on the ship, a black hole on it.
\* The ship is then inactive, unless it was a black hole that met the ship
\* with its shield up: that ship is still active.  The ship stays as it is
\* while the state is GameOver.
C30_GameOverCauses ==
    [][/\ FrameStep =>
            /\ game_state' = "GameOver"
                  <=> /\ PassRan'
                      /\ \/ ShipHitters' # {} /\ ~obs'.pass_in.spaceship.shield
                         \/ ShipHitters' = {} /\ ShipSwallowers' # {}
            /\ game_state' = "GameOver"
                  => (spaceship'.active
                        <=> ShipHitters' = {} /\ obs'.pass_in.spaceship.shield)
       /\ (game_state = "GameOver" /\ game_state' = "GameOver")
            => spaceship' = spaceship]_vars

\* the game is over for a ship that a black hole met with its shield up:
\* the ship is active
C30_Witness ==
    /\ game_state = "GameOver"
    /\ obs.kind = "frame"
    /\ obs.game_over
    /\ ShipHitters = {}
    /\ ShipSwallowers # {}
    /\ obs.pass_in.spaceship.shield
    /\ spaceship.active

----------------------------------------------------------------------------
(* Claims on the main loop run on scenes, checked under LiveSceneSpec *)

\* position p is beyond an edge of the screen
Beyond(p) ==
    p[1] < 0 \/ p[1] > screen_width \/ p[2] < 0 \/ p[2] > screen_height

\* position p is on the screen, the far edges excluded
OnScreen(p) ==
    p[1] >= 0 /\ p[1] < screen_width /\ p[2] >= 0 /\ p[2] < screen_height

RECURSIVE FramesLeft(_, _)
\* the number of positions p, p + v, p + 2v, .. before the first one beyond
\* an edge
FramesLeft(p, v) == IF Beyond(p) THEN 0 ELSE 1 + FramesLeft(VAdd(p, v), v)

\* C27: every missile of the collection has speed 4.  A Playing frame keeps
\* a missile only as the pass left it, active, moved by its velocity, never
\* wrapped and with the same velocity; it removes every missile that the pass
\* deactivated or that the move takes beyond an edge of the screen, and
\* keeps every other one that the move leaves on the screen.  So a missile
\* is gone after finitely many frames: while the game stays in Playing, a
\* collection of n missiles to which none can be added, and whose missiles
\* all have frames enough left to cross the screen, eventually has fewer.
C27_MissilesLeave ==
    /\ \A k \in DOMAIN missiles : Length(missiles[k].velocity) = Px(4)
    /\ [][FrameStep =>
            LET left == obs'.pass_out.missiles
                moved(j) == VAdd(left[j].position, left[j].velocity)
            IN  /\ \A k \in DOMAIN missiles' :
                      \E j \in DOMAIN left :
                         /\ left[j].active
                         /\ ~Beyond(moved(j))
                         /\ missiles'[k] = [left[j] EXCEPT !.position = moved(j)]
                /\ Len(missiles')
                      <= Cardinality({j \in DOMAIN left :
                                        left[j].active /\ ~Beyond(moved(j))})
                /\ Len(missiles')
                      >= Cardinality({j \in DOMAIN left :
                                        left[j].active /\ OnScreen(moved(j))})]_vars
    /\ \A n \in 1 .. 3 :
          (/\ game_state = "Playing"
           /\ Len(missiles) = n
           /\ n >= MaxMissiles
           /\ \A k \in DOMAIN missiles :
                 ticks + FramesLeft(missiles[k].position, missiles[k].velocity)
                    <= MaxTicks)
             ~> \/ Len(missiles) < n
                \/ game_state # "Playing"
                \/ ~running
                \/ (asteroids = <<>> /\ wave >= MaxWave)

\* a missile that no collision had deactivated has flown off the screen and
\* the frame has removed it
C27_Witness ==
    /\ obs.kind = "frame"
    /\ game_state = "Playing"
    /\ Len(obs.pass_out.missiles) = 1
    /\ obs.pass_out.missiles[1].active
    /\ Beyond(VAdd(obs.pass_out.missiles[1].position,
                   obs.pass_out.missiles[1].velocity))
    /\ missiles = <<>>

----------------------------------------------------------------------------
(* Further claims on single functions, checked under HarnessSpec *)

\* C28 (as claimed): after every move_obj of a ship, whatever its velocity,
\* the position of the ship is in [0, screen_width) x [0, screen_height).
C28_ShipStaysOnScreen ==
    (unit.op = "move_obj" /\ unit.a.kind = "Spaceship") =>
        OnScreen(unit.a.position)

\* C29 (as claimed): with no thrust key down, a velocity of speed 0 is left
\* as it is, one slower than the step 0.005 becomes (0, 0), and a faster one
\* keeps its direction and loses the step in speed.
C29_DecelerationClamped ==
    unit.op = "decelerate" =>
        LET v == unit.arg.velocity
            w == unit.a.velocity
        IN  /\ Length(v) = 0 => w = v
            /\ (Length(v) > 0 /\ Length(v) < FineDecelStep) => w = <<0, 0>>
            /\ Length(v) >= FineDecelStep =>
                  /\ Length(w) = Length(v) - FineDecelStep
                  /\ w[1] * v[2] = w[2] * v[1]
                  /\ w[1] * v[1] >= 0
                  /\ w[2] * v[2] >= 0

----------------------------------------------------------------------------
(* Further claims on the collision pass, checked under SceneSpec *)

\* the black holes that a missile overlaps and the pass leaves inactive
BlackHolesShotDown ==
    {b \in 1 .. Len(obs.pass_in.black_holes) :
        MissilesOn(b) # {} /\ ~obs.pass_out.black_holes[b].active}

\* C31 (as claimed): a black hole adds 10 to the score at most once, in the
\* pass that leaves it inactive (the cleanup of that frame removes it), however
\* many missiles overlap it in that pass and whether or not an asteroid had
\* deactivated it earlier in the pass: besides the 1 per asteroid shot, the
\* pass adds at most 10 for every black hole it leaves inactive under missiles.
C31_BlackHoleBonusOnce ==
    ReachedLastLoops =>
        obs.pass_out.score - obs.pass_in.score - Cardinality(ShotAsteroids)
            <= BlackHoleBonus * Cardinality(BlackHolesShotDown)

\* the places in the call log where missile j is handled
MissileCalls(j) ==
    {k \in 1 .. Len(obs.calls) : obs.calls[k] = <<"Missile", j>>}

\* C32 (as claimed): a missile takes part in at most one collision: in a pass
\* it is handled at most once, with one black hole or one asteroid, and a
\* missile so handled is left inactive (the cleanup of that frame removes it,
\* so no later pass meets it).
C32_MissileHitsOnce ==
    PassRan =>
        \A j \in 1 .. Len(obs.pass_in.missiles) :
            /\ Cardinality(MissileCalls(j)) <= 1
            /\ MissileCalls(j) # {} => ~obs.pass_out.missiles[j].active

\* the asteroids that a black hole deactivates in the asteroid x black hole
\* loop, and the asteroids shot that no black hole had deactivated
SwallowedAsteroids ==
    {i \in 1 .. Len(obs.pass_in.asteroids) : BlackHolesAt(i) # {}}
ShotAlive == ShotAsteroids \ SwallowedAsteroids

\* C33 (as claimed): an asteroid that a black hole deactivated in the
\* asteroid x black hole loop is not handled with any missile in the
\* asteroid x missile loop of the same pass, scores no point and queues no
\* fragments there: the pass adds 1 to the score and queues 2 fragments (for
\* a Large or Medium one) only for the asteroids shot that no black hole
\* overlaps.
C33_SwallowedAsteroidNotShot ==
    ReachedLastLoops =>
        /\ \A i \in SwallowedAsteroids : ShotCalls(i) = {}
        /\ obs.pass_out.score
              = obs.pass_in.score + Cardinality(ShotAlive)
                + BlackHoleBonus * BonusHitsUpTo(Len(obs.pass_in.black_holes))
        /\ Len(obs.pass_out.asteroids)
              = Len(obs.pass_in.asteroids)
                + 2 * Cardinality({i \in ShotAlive :
                        obs.pass_in.asteroids[i].size \in {"Large", "Medium"}})

----------------------------------------------------------------------------
(* Further claims on the main loop, checked under SceneSpec *)

\* C34 (as claimed): in a frame whose collision pass signals game over, the
\* wave-clear sequence does not fire: the score stays as the pass left it,
\* the wave is unchanged, the ship keeps the shield, invincible and hit flags
\* the pass left it with, and no asteroid is spawned.
C34_GameOverNoWaveClear ==
    [][(obs'.kind = "frame" /\ ticks' = ticks + 1 /\ obs'.game_over) =>
          /\ ~obs'.wave_clear
          /\ score' = obs'.pass_out.score
          /\ wave' = wave
          /\ spaceship'.shield = obs'.pass_out.spaceship.shield
          /\ spaceship'.invincible = obs'.pass_out.spaceship.invincible
          /\ spaceship'.hit = obs'.pass_out.spaceship.hit
          /\ obs'.spawned = 0
          /\ Len(asteroids') <= Len(obs'.pass_out.asteroids)]_vars

----------------------------------------------------------------------------
(* Claims on the main loop run on split chains, checked under ChainSpec *)

\* the size tiers, from the smallest
TierRank(size) ==
    CASE size = "Small" -> 1
      [] size = "Medium" -> 2
      [] size = "Large" -> 3

SizesOf(as) == [i \in 1 .. Len(as) |-> as[i].size]

\* C35: an asteroid keeps its size tier through the collision pass and the
\* cleanup and move of the frame; every fragment the pass adds is exactly one
\* tier smaller than the asteroid it was split from, two per asteroid split
\* and none for a Small one.  So, counted over a wave of n asteroids, the
\* fragments made number at most 6n (2 Medium + 4 Small for a Large one), the
\* asteroids destroyed at most 7n, and when the wave-clear sequence runs
\* every asteroid and fragment of the wave has been destroyed once.
C35_SplitChainsTerminate ==
    obs.kind = "frame" =>
        /\ \A i \in 1 .. Len(obs.pass_in.asteroids) :
              obs.pass_out.asteroids[i].size = obs.pass_in.asteroids[i].size
        /\ ~obs.wave_clear =>
              SizesOf(asteroids) = SizesOf(retain_active(obs.pass_out.asteroids))
        /\ Len(obs.pass_out.asteroids)
              = Len(obs.pass_in.asteroids) + 2 * Cardinality(Splitters)
        /\ \A i \in Splitters : \A k \in {1, 2} :
              TierRank(obs.pass_out.asteroids[
                           Len(obs.pass_in.asteroids) + 2 * SplitsBefore(i) + k].size)
                 = TierRank(obs.pass_in.asteroids[i].size) - 1
        /\ obs.tally.fragments <= 6 * obs.tally.roots
        /\ obs.tally.destroyed <= 7 * obs.tally.roots
        /\ obs.wave_clear =>
              obs.tally.destroyed = obs.tally.roots + obs.tally.fragments

\* a wave of one Large asteroid has been cleared: its 2 Medium and 4 Small
\* fragments were made and all 7 asteroids destroyed
C35_Witness ==
    /\ obs.kind = "frame"
    /\ obs.wave_clear
    /\ obs.tally.roots = 1
    /\ obs.tally.fragments = 6
    /\ obs.tally.destroyed = 7

============================================================================
